---------------------------- MODULE Spec2Model ----------------------------
(***************************************************************************)
(* Control-flow model of the account-creation driver.                      *)
(*                                                                         *)
(*   utils.retry            src/utils.js            (retry/backoff wrapper) *)
(*   createGmailAccount,                                                    *)
(*   createOutlookAccount,                                                  *)
(*   createAppleID,                                                         *)
(*   createAccounts         src/create-accounts.js  (version "main")        *)
(*   createAccounts         src/README.md           (version "later")       *)
(*   waitForAnySelector     src/screenshot-utils.js                         *)
(*   createGmailAccounts    src/gmail-interface.js, and its earlier version *)
(*                                                                         *)
(* Strings are sequences of string tokens; a JavaScript Error is a record  *)
(* with a message field; null is the record Null.  Numbers with a          *)
(* fractional part (the backoff delays) are exact rationals <<num, den>>:   *)
(* the multipliers used are dyadic, so the double arithmetic of Math.pow   *)
(* is exact on them.                                                       *)
(***************************************************************************)
EXTENDS Integers, Sequences, FiniteSets, TLC

VARIABLES
  version,   \* which createAccounts runs: "main", "later"; "none" = retry alone
  env,       \* process.env.ACCOUNTS_COUNT: Null when unset, else [v |-> string]
  pc,        \* position of createAccounts
  ca,        \* the local variables of createAccounts
  browser,   \* the browser the variable `browser` refers to
  file,      \* accounts.txt: Null when absent, else [text |-> string]
  fl,        \* the activation record of the flow function in flight
  openPages, \* number of pages opened by flows and not yet closed
  obs,       \* observation of the current createAccounts run (not program state)
  rt,        \* the activation record of utils.retry
  hist,      \* observation of the current utils.retry call (not program state)
  ws,        \* the activation record of waitForAnySelector, and its page
  gi,        \* the activation record of createGmailAccounts, and its files
  si,        \* the activation record of safeInteraction, and its promises
  cap,       \* the catch block of a flow that captures diagnostics
  ol         \* the activation record of the later createOutlookAccount

retryVars == <<rt, hist>>
flowVars == <<fl, openPages>>
progVars == <<version, env, pc, ca, browser, file, obs>>
libVars == <<ws, gi, si, cap, ol>>
vars == <<version, env, pc, ca, browser, file, fl, openPages, obs, rt, hist,
          ws, gi, si, cap, ol>>

(***************************************************************************)
(* Bounds                                                                  *)
(***************************************************************************)
MaxRetriesBound == 4     \* largest maxRetries passed to utils.retry alone

(***************************************************************************)
(* Values                                                                  *)
(***************************************************************************)
Null == [null |-> TRUE]

Err(msg) == [message |-> msg]

\* Messages a failing operation can carry.  The first contains the word
\* 'timeout', the second contains neither 'timeout' nor 'navigation'.
Causes == { <<"Navigation ", "timeout", " of 30000 ms exceeded">>,
            <<"No node found for ", "selector">> }

FnValues == { [value |-> "v1"], [value |-> "v2"] }

DigitChars == <<"0", "1", "2", "3", "4", "5", "6", "7", "8", "9">>

\* Number -> decimal string, as template literals format a non-negative integer.
RECURSIVE ToStr(_)
ToStr(n) == IF n < 10 THEN <<DigitChars[n + 1]>>
            ELSE ToStr(n \div 10) \o <<DigitChars[(n % 10) + 1]>>

RECURSIVE Pow(_, _)
Pow(b, e) == IF e = 0 THEN 1 ELSE b * Pow(b, e - 1)

\* Exact rationals <<num, den>>, den > 0.
RatEq(a, b)  == a[1] * b[2] = b[1] * a[2]
RatLeq(a, b) == a[1] * b[2] <= b[1] * a[2]
Rat(n)       == <<n, 1>>

(***************************************************************************)
(* utils.retry                                                             *)
(***************************************************************************)
\* const { maxRetries = 3, retryDelay = 2000, retryMultiplier = 1.5,
\*         onRetry = null, name = 'operation' } = options
DefaultMaxRetries == 3
DefaultRetryDelay == 2000
DefaultRetryMultiplier == <<3, 2>>
DefaultName == "operation"

BackoffDelay_NoMinusOne(retryDelay, mult, attempt) ==
  <<retryDelay * Pow(mult[1], attempt), Pow(mult[2], attempt)>>

\* retryDelay * Math.pow(retryMultiplier, attempt - 1)
BackoffDelay(retryDelay, mult, attempt) ==
  <<retryDelay * Pow(mult[1], attempt - 1), Pow(mult[2], attempt - 1)>>

\* `${name} failed after ${maxRetries} attempts: ${lastError.message}`;
\* reading .message of a null lastError is a TypeError.
RetryFailure(name, maxRetries, lastError) ==
  IF lastError = Null
  THEN Err(<<"TypeError: Cannot read properties of null (reading 'message')">>)
  ELSE Err(<<name, " failed after ">> \o ToStr(maxRetries) \o <<" attempts: ">>
           \o lastError.message)

\* The activation record when retry(fn, options) is entered.
RetryFrame(fn, name, maxRetries, retryDelay, mult, onRetry) ==
  [ pc |-> "loop", fn |-> fn, name |-> name, maxRetries |-> maxRetries,
    retryDelay |-> retryDelay, retryMultiplier |-> mult, onRetry |-> onRetry,
    attempt |-> 1, lastError |-> Null, delay |-> Rat(0),
    result |-> Null, error |-> Null ]

IdleFrame == [RetryFrame("fn", DefaultName, 0, 0, <<1, 1>>, "absent")
                EXCEPT !.pc = "idle"]

NewHist == [ calls |-> 0, inflight |-> 0, fnErrors |-> <<>>, fnValues |-> <<>>,
             waits |-> <<>>, newPages |-> 0,
             onRetryCalls |-> <<>>, onRetryThrew |-> FALSE ]

RetryLoop_OneMore ==
  /\ rt.pc = "loop"
  /\ IF rt.attempt <= rt.maxRetries + 1
     THEN /\ rt' = [rt EXCEPT !.pc = "infn"]
          /\ hist' = [hist EXCEPT !.calls = @ + 1, !.inflight = @ + 1]
     ELSE /\ rt' = [rt EXCEPT !.pc = "rejected",
                     !.error = RetryFailure(rt.name, rt.maxRetries, rt.lastError)]
          /\ hist' = hist
  /\ UNCHANGED <<libVars, progVars, flowVars>>

\* for (attempt = 1; attempt <= maxRetries; ...) { try { return await fn() ...
\* and, when the loop is left, the final throw.
RetryLoop ==
  /\ rt.pc = "loop"
  /\ IF rt.attempt <= rt.maxRetries
     THEN /\ rt' = [rt EXCEPT !.pc = "infn"]
          /\ hist' = [hist EXCEPT !.calls = @ + 1, !.inflight = @ + 1]
     ELSE /\ rt' = [rt EXCEPT !.pc = "rejected",
                     !.error = RetryFailure(rt.name, rt.maxRetries, rt.lastError)]
          /\ hist' = hist
  /\ UNCHANGED <<libVars, progVars, flowVars>>

\* fn() fulfilled: return await fn()
RetryFnReturned(v) ==
  /\ rt' = [rt EXCEPT !.pc = "returned", !.result = v]
  /\ hist' = [hist EXCEPT !.inflight = @ - 1, !.fnValues = Append(@, v)]

RetryFnThrew_OnRetryAlways(e) ==
  /\ rt' = [rt EXCEPT
       !.lastError = e,
       !.delay = BackoffDelay(rt.retryDelay, rt.retryMultiplier, rt.attempt),
       !.pc = IF rt.onRetry # "absent" THEN "onretry"
              ELSE IF rt.attempt < rt.maxRetries THEN "sleep" ELSE "loop",
       !.attempt = IF rt.attempt < rt.maxRetries \/ rt.onRetry # "absent"
                   THEN @ ELSE @ + 1]
  /\ hist' = [hist EXCEPT
       !.inflight = @ - 1,
       !.fnErrors = Append(@, e),
       !.onRetryCalls = IF rt.onRetry # "absent"
                        THEN Append(@, [error |-> e, attempt |-> rt.attempt])
                        ELSE @]

RetryFnThrew_KeepFirst(e) ==
  /\ rt' = [rt EXCEPT
       !.lastError = IF @ = Null THEN e ELSE @,
       !.delay = BackoffDelay(rt.retryDelay, rt.retryMultiplier, rt.attempt),
       !.pc = IF rt.attempt < rt.maxRetries
              THEN (IF rt.onRetry # "absent" THEN "onretry" ELSE "sleep")
              ELSE "loop",
       !.attempt = IF rt.attempt < rt.maxRetries THEN @ ELSE @ + 1]
  /\ hist' = [hist EXCEPT
       !.inflight = @ - 1,
       !.fnErrors = Append(@, e),
       !.onRetryCalls = IF rt.attempt < rt.maxRetries /\ rt.onRetry # "absent"
                        THEN Append(@, [error |-> e, attempt |-> rt.attempt])
                        ELSE @]

\* fn() rejected: the catch block up to the call of onRetry / setTimeout.
RetryFnThrew(e) ==
  /\ rt' = [rt EXCEPT
       !.lastError = e,
       !.delay = BackoffDelay(rt.retryDelay, rt.retryMultiplier, rt.attempt),
       !.pc = IF rt.attempt < rt.maxRetries
              THEN (IF rt.onRetry # "absent" THEN "onretry" ELSE "sleep")
              ELSE "loop",
       !.attempt = IF rt.attempt < rt.maxRetries THEN @ ELSE @ + 1]
  /\ hist' = [hist EXCEPT
       !.inflight = @ - 1,
       !.fnErrors = Append(@, e),
       !.onRetryCalls = IF rt.attempt < rt.maxRetries /\ rt.onRetry # "absent"
                        THEN Append(@, [error |-> e, attempt |-> rt.attempt])
                        ELSE @]

\* await onRetry(error, attempt) fulfilled
RetryOnRetryReturned ==
  /\ rt' = [rt EXCEPT !.pc = "sleep"]
  /\ hist' = hist

\* await onRetry(error, attempt) rejected: nothing catches it inside retry
RetryOnRetryThrew(e) ==
  /\ rt' = [rt EXCEPT !.pc = "rejected", !.error = e]
  /\ hist' = [hist EXCEPT !.onRetryThrew = TRUE]

\* await setTimeout(delay); attempt++
RetrySleep ==
  /\ rt.pc = "sleep"
  /\ rt' = [rt EXCEPT !.pc = "loop", !.attempt = @ + 1]
  /\ hist' = [hist EXCEPT !.waits = Append(@, rt.delay)]
  /\ UNCHANGED <<libVars, progVars, flowVars>>

(***************************************************************************)
(* Values of createAccounts                                                *)
(***************************************************************************)
\* A JavaScript number that may be NaN.
Num(n) == [nan |-> FALSE, val |-> n]
NaN == [nan |-> TRUE, val |-> 0]

Less_OrEqual(i, n) == ~n.nan /\ i <= n.val

\* i < n in JavaScript: false whenever n is NaN
Less(i, n) == ~n.nan /\ i < n.val

DigitValue(c) == CHOOSE d \in 0..9 : DigitChars[d + 1] = c
IsDigit(c) == \E d \in 0..9 : DigitChars[d + 1] = c

RECURSIVE SkipSpaces(_)
SkipSpaces(s) == IF s # <<>> /\ Head(s) = " " THEN SkipSpaces(Tail(s)) ELSE s

RECURSIVE ParseDigits(_, _)
ParseDigits(s, acc) ==
  IF s # <<>> /\ IsDigit(Head(s))
  THEN ParseDigits(Tail(s), 10 * acc + DigitValue(Head(s)))
  ELSE acc

\* parseInt(s, 10): leading white space skipped, optional sign, the longest
\* prefix of decimal digits; NaN when there is no digit.
ParseInt(s) ==
  LET t == SkipSpaces(s)
      neg == t # <<>> /\ Head(t) = "-"
      u == IF t # <<>> /\ Head(t) \in {"-", "+"} THEN Tail(t) ELSE t
  IN IF u = <<>> \/ ~IsDigit(Head(u)) THEN NaN
     ELSE Num(IF neg THEN 0 - ParseDigits(u, 0) ELSE ParseDigits(u, 0))

\* const ACCOUNTS_COUNT = parseInt(process.env.ACCOUNTS_COUNT || '1', 10)
AccountsCount(e) == ParseInt(IF e = Null \/ e.v = <<>> THEN <<"1">> ELSE e.v)

ACCOUNTS_COUNT == AccountsCount(env)

\* generateRandomProfile(): the random username and password are fresh
\* symbolic strings, named after the iteration i of the account loop and
\* the place (slot) of the call in the loop body; the email field is preset
\* to the first provider's address.
GenerateRandomProfile(i, slot) ==
  [username |-> <<"user">> \o ToStr(i) \o <<slot>>,
   password |-> <<"Pw">> \o ToStr(i) \o <<slot, "!">>,
   email |-> <<"user">> \o ToStr(i) \o <<slot, "@gmail.com">>]

\* text.split('\n')
RECURSIVE Split(_)
Split(text) ==
  IF \E k \in 1..Len(text) : text[k] = "\n"
  THEN LET k == CHOOSE j \in 1..Len(text) :
                  text[j] = "\n" /\ \A h \in 1..(j - 1) : text[h] # "\n"
       IN <<SubSeq(text, 1, k - 1)>> \o Split(SubSeq(text, k + 1, Len(text)))
  ELSE <<text>>

\* array.join(sep) on strings
RECURSIVE Join(_, _)
Join(strs, sep) ==
  IF strs = <<>> THEN <<>>
  ELSE IF Len(strs) = 1 THEN strs[1]
  ELSE strs[1] \o sep \o Join(Tail(strs), sep)

\* `Apple ID: ${account.appleEmail}\nPassword: ${account.applePassword}\n`
AccountText(account) ==
  <<"Apple ID: ">> \o account.appleEmail
    \o <<"\n", "Password: ">> \o account.applePassword \o <<"\n">>

AccountsText_LastOnly(accounts) ==
  IF accounts = <<>> THEN <<>> ELSE AccountText(accounts[Len(accounts)])

\* accounts.map(account => `...`).join('\n')
AccountsText(accounts) ==
  Join([k \in 1..Len(accounts) |-> AccountText(accounts[k])], <<"\n">>)

\* fs.writeFileSync('accounts.txt', text): the file is created or truncated
WriteFileSync(text) == [text |-> text]

\* String.prototype.startsWith on token sequences
IsPrefix(s, t) == Len(s) <= Len(t) /\ \A k \in 1..Len(s) : s[k] = t[k]

\* String.prototype.includes on the tokens of a message
Includes(msg, word) == \E k \in 1..Len(msg) : msg[k] = word

(***************************************************************************)
(* State of createAccounts                                                 *)
(***************************************************************************)
NewLocals ==
  [ i |-> 0, emailProfile |-> Null, isGmail |-> FALSE,
    gmailProfile |-> Null, outlookProfile |-> Null,
    accountsData |-> <<>>, successfulAccounts |-> <<>>,
    currentAttempt |-> 1, brk |-> FALSE, error |-> Null ]

\* ref: what the variable `browser` refers to: "null", an "open" instance or
\* a "closed" instance; openInstances: instances launched and not closed.
NoBrowser == [ref |-> "null", openInstances |-> 0]

IdleFlow == [pc |-> "idle", kind |-> "none", step |-> 0, page |-> 0,
             profile |-> Null, isGmail |-> FALSE, skipped |-> {},
             outcome |-> Null]

NoCalls == [createGmailAccount |-> 0, createOutlookAccount |-> 0,
            createAppleID |-> 0]

\* The records of a list of accounts returned by createAppleID.
KeptRecords(accounts) ==
  [k \in 1..Len(accounts) |->
     [email |-> accounts[k].appleEmail, password |-> accounts[k].applePassword]]

\* The records that a write of the accounts to accounts.txt saves.
SavedBy(accounts) == { KeptRecords(accounts)[k] : k \in 1..Len(accounts) }

\* What is observed of one iteration of the account loop.
NewAccountObs ==
  [ calls |-> NoCalls, failures |-> NoCalls, emailFlow |-> "none",
    emailResult |-> Null, appleArgs |-> Null ]

NewObs ==
  [ started |-> <<>>, completed |-> <<>>, records |-> <<>>,
    account |-> NewAccountObs, writes |-> 0, mainCloseCalls |-> 0,
    fileAtStart |-> Null, earlier |-> 0, passErrors |-> 0, saved |-> {},
    attempts |-> 0 ]

(***************************************************************************)
(* State of waitForAnySelector and of createGmailAccounts                  *)
(***************************************************************************)
\* The selectors a page can hold.
Universe == {"#a", "#b", "#c"}

\* presentSince[s]: the time, in ms after startTime, since which the page
\* holds an element for s; Never when it does not hold one.
Never == -1

\* The waitForAnySelector that is installed when screenshot-utils cannot be
\* loaded, before the call.  hidden: the selectors for which the page holds
\* an element that is not visible; appeared: those for which an element
\* turned up during the call; probes: the waits issued.
IdleFallback ==
  [ pc |-> "idle", option |-> Null, timeout |-> 0, idx |-> 0, probes |-> <<>>,
    hidden |-> {}, appeared |-> {}, result |-> Null, error |-> Null ]

\* now is Date.now() - startTime.
IdleWait ==
  [ pc |-> "idle", selectors |-> <<>>, timeout |-> 0, now |-> 0, attempt |-> 0,
    idx |-> 0, probeTimeout |-> 0, result |-> Null, error |-> Null,
    presentSince |-> [s \in Universe |-> Never], presentAtStart |-> {},
    probed |-> <<>>, fallback |-> IdleFallback ]

IdleGmail ==
  [ pc |-> "idle", version |-> "none", outputFile |-> Null, tempScript |-> FALSE,
    scriptExists |-> FALSE, child |-> "none", promise |-> "pending",
    value |-> Null, settles |-> 0, closed |-> FALSE, errored |-> FALSE,
    stderrData |-> <<>>, exitCode |-> Null, writes |-> 0, spawned |-> 0,
    killed |-> FALSE, chunks |-> 0, staleAtStart |-> FALSE, pip |-> "none",
    markers |-> 0 ]

(***************************************************************************)
(* utils.retry on its own: an arbitrary fn and an arbitrary onRetry        *)
(***************************************************************************)
\* safeInteraction before it is called.  action and navigation are the
\* states of actionPromise and of the promise of page.waitForNavigation;
\* first is the promise that rejected first; events lists what happened.
IdleSafe ==
  [pc |-> "idle", selector |-> Null, waitForNavigation |-> FALSE,
   waited |-> "no", action |-> "none", actionError |-> Null,
   navigation |-> "none", navigationError |-> Null, first |-> "none",
   navigated |-> FALSE, result |-> Null, error |-> Null, events |-> <<>>]

\* The later createOutlookAccount before the call.
IdleOutlook ==
  [pc |-> "idle", stage |-> 0, part |-> "none", how |-> <<>>, failedAt |-> 0,
   cause |-> Null, inner |-> Null, success |-> FALSE, result |-> Null,
   error |-> Null, pageClosed |-> FALSE]

\* The later createGmailAccount and its diagnostic captures before the call.
IdleCapture ==
  [pc |-> "idle", cause |-> Null, fn |-> "none", at |-> "none", clock |-> 0,
   dirExists |-> FALSE, files |-> {}, returned |-> <<>>, failed |-> <<>>,
   thrown |-> Null, trail |-> <<>>, result |-> Null, error |-> Null]

RetryDelays == {DefaultRetryDelay, 5000}
RetryMultipliers == {<<1, 2>>, <<1, 1>>, DefaultRetryMultiplier, <<2, 1>>}
OnRetryErrors == { Err(<<"onRetry failed">>) }

InitRetry ==
  /\ version = "none"
  /\ env = Null
  /\ pc = "none"
  /\ ca = NewLocals
  /\ browser = NoBrowser
  /\ file = Null
  /\ fl = IdleFlow
  /\ openPages = 0
  /\ obs = NewObs
  /\ \E n \in 0..MaxRetriesBound, d \in RetryDelays, m \in RetryMultipliers,
        o \in {"absent", "callback"} :
       rt = RetryFrame("fn", DefaultName, n, d, m, o)
  /\ hist = NewHist
  /\ ws = IdleWait
  /\ gi = IdleGmail
  /\ si = IdleSafe
  /\ cap = IdleCapture
  /\ ol = IdleOutlook

FnReturns ==
  /\ rt.pc = "infn" /\ rt.fn = "fn"
  /\ \E v \in FnValues : RetryFnReturned(v)
  /\ UNCHANGED <<libVars, progVars, flowVars>>

FnThrows ==
  /\ rt.pc = "infn" /\ rt.fn = "fn"
  /\ \E c \in Causes : RetryFnThrew(Err(c))
  /\ UNCHANGED <<libVars, progVars, flowVars>>

OnRetryReturns ==
  /\ rt.pc = "onretry" /\ rt.onRetry = "callback"
  /\ RetryOnRetryReturned
  /\ UNCHANGED <<libVars, progVars, flowVars>>

OnRetryThrows ==
  /\ rt.pc = "onretry" /\ rt.onRetry = "callback"
  /\ \E e \in OnRetryErrors : RetryOnRetryThrew(e)
  /\ UNCHANGED <<libVars, progVars, flowVars>>

NextRetry ==
  \/ RetryLoop
  \/ FnReturns
  \/ FnThrows
  \/ OnRetryReturns
  \/ OnRetryThrows
  \/ RetrySleep

SpecRetry == InitRetry /\ [][NextRetry]_vars

(***************************************************************************)
(* The flow functions createGmailAccount, createOutlookAccount and         *)
(* createAppleID.  Each awaited operation of the try block that can reject *)
(* is one step (utils.humanDelay cannot); a step wrapped in its own        *)
(* try/catch is an optional step.  Nothing runs between the steps of a     *)
(* flow, so a run of consecutive steps that are neither optional nor       *)
(* nested is taken in one action: all of them are fulfilled, or one of     *)
(* them rejects and the rest of the run is not executed.  page.close() and *)
(* browser.close() are taken to succeed on a browser that is open.         *)
(***************************************************************************)
FlowKinds == {"createGmailAccount", "createOutlookAccount", "createAppleID"}

\* Number of steps between `try {` and the return statement.  The later
\* createGmailAccount and createOutlookAccount are taken as one composite step.
NSteps(v, kind) ==
  IF kind = "createAppleID" THEN 23
  ELSE IF v = "later" THEN 1
  ELSE IF kind = "createGmailAccount" THEN 19
  ELSE 26

OptionalSteps_AgreementMandatory(v, kind) ==
  IF kind = "createAppleID" THEN {13}
  ELSE IF v = "later" THEN {}
  ELSE IF kind = "createGmailAccount" THEN {17}
  ELSE {18}

\* The steps inside `try { ... } catch (error) { utils.log(...) }`
OptionalSteps(v, kind) ==
  IF kind = "createAppleID" THEN {13}
  ELSE IF v = "later" THEN {}
  ELSE IF kind = "createGmailAccount" THEN {17, 18}
  ELSE {18}

\* The step `await getEmailVerificationCode(browser, profile, isGmail)`,
\* which opens and closes a page of its own.
NestedSteps(v, kind) == IF kind = "createAppleID" THEN {16} ELSE {}

\* `Failed to create Gmail account: ${error.message}` and its siblings
FlowFailure(kind, msg) ==
  <<IF kind = "createGmailAccount" THEN "Failed to create Gmail account: "
    ELSE IF kind = "createOutlookAccount" THEN "Failed to create Outlook account: "
    ELSE "Failed to create Apple ID: ">> \o msg

\* `Failed to retrieve email verification: ${error.message}`
NestedFailure(msg) == <<"Failed to retrieve email verification: ">> \o msg

\* browser.newPage() on a browser that has been closed
TargetClosed == Err(<<"Protocol error (Target.createTarget): Target closed.">>)

\* profile.email = `${profile.username}@gmail.com`; return profile   (and the
\* Outlook sibling);  return { appleEmail: profile.email, applePassword: ... }
FlowValue(f) ==
  IF f.kind = "createGmailAccount"
  THEN [f.profile EXCEPT !.email = f.profile.username \o <<"@gmail.com">>]
  ELSE IF f.kind = "createOutlookAccount"
  THEN [f.profile EXCEPT !.email = f.profile.username \o <<"@outlook.com">>]
  ELSE [appleEmail |-> f.profile.email, applePassword |-> f.profile.password]

\* The argument the closure passed to utils.retry hands to the flow.
FlowArg(kind) ==
  IF kind = "createGmailAccount" THEN ca.gmailProfile
  ELSE IF kind = "createOutlookAccount" THEN ca.outlookProfile
  ELSE ca.emailProfile

\* fn(): the flow is called; const page = await browser.newPage()
FlowEnter ==
  /\ rt.pc = "infn" /\ rt.fn \in FlowKinds /\ fl.pc = "idle"
  /\ obs' = [obs EXCEPT
       !.account.calls[rt.fn] = @ + 1,
       !.account.failures[rt.fn] = IF browser.ref = "open" THEN @ ELSE @ + 1,
       !.account.appleArgs =
          IF rt.fn = "createAppleID"
          THEN [profile |-> ca.emailProfile, isGmail |-> ca.isGmail] ELSE @]
  /\ IF browser.ref = "open"
     THEN /\ fl' = [pc |-> "step", kind |-> rt.fn, step |-> 1,
                    page |-> hist.newPages + 1, profile |-> FlowArg(rt.fn),
                    isGmail |-> ca.isGmail, skipped |-> {}, outcome |-> Null]
          /\ openPages' = openPages + 1
          /\ hist' = [hist EXCEPT !.newPages = @ + 1]
          /\ rt' = rt
     ELSE /\ RetryFnThrew(TargetClosed)
          /\ UNCHANGED flowVars
  /\ UNCHANGED <<libVars, version, env, pc, ca, browser, file>>

\* The last step of the run of steps that starts at step a.
RECURSIVE RunEnd(_, _, _)
RunEnd(v, kind, a) ==
  IF a \in OptionalSteps(v, kind) \cup NestedSteps(v, kind) THEN a
  ELSE IF a < NSteps(v, kind)
          /\ (a + 1) \notin OptionalSteps(v, kind) \cup NestedSteps(v, kind)
       THEN RunEnd(v, kind, a + 1)
       ELSE a

\* After the run that starts at f.step: the next step, or the return
\* statement after the last step.
FlowAdvance(f) ==
  IF RunEnd(version, f.kind, f.step) = NSteps(version, f.kind)
  THEN [f EXCEPT !.pc = "finally", !.step = NSteps(version, f.kind),
                 !.outcome = [type |-> "return"]]
  ELSE [f EXCEPT !.pc = "step", !.step = RunEnd(version, f.kind, f.step) + 1]

\* The awaited operations of the current run of steps are all fulfilled.
FlowStepSucceeds ==
  /\ fl.pc = "step" /\ fl.step \notin NestedSteps(version, fl.kind)
  /\ fl' = FlowAdvance(fl)
  /\ UNCHANGED <<libVars, progVars, retryVars, openPages>>

\* An awaited operation of the current run of steps rejects: an optional
\* step logs and goes on, any other step lands in the catch block of the
\* flow and the steps after it are not executed.
FlowStepFails ==
  /\ fl.pc = "step" /\ fl.step \notin NestedSteps(version, fl.kind)
  /\ \E c \in Causes :
       fl' = IF fl.step \in OptionalSteps(version, fl.kind)
             THEN FlowAdvance([fl EXCEPT !.skipped = @ \cup {fl.step}])
             ELSE [fl EXCEPT !.pc = "finally",
                     !.outcome = [type |-> "throw",
                                  error |-> Err(FlowFailure(fl.kind, c))]]
  /\ UNCHANGED <<libVars, progVars, retryVars, openPages>>

\* getEmailVerificationCode: const page = await browser.newPage()
FlowNestedEnter ==
  /\ fl.pc = "step" /\ fl.step \in NestedSteps(version, fl.kind)
  /\ fl' = [fl EXCEPT !.pc = "nested"]
  /\ openPages' = openPages + 1
  /\ UNCHANGED <<libVars, progVars, retryVars>>

\* getEmailVerificationCode returns the code; finally { await page.close() }
FlowNestedReturns ==
  /\ fl.pc = "nested"
  /\ fl' = FlowAdvance(fl)
  /\ openPages' = openPages - 1
  /\ UNCHANGED <<libVars, progVars, retryVars>>

FlowNestedThrows_LeavesPage ==
  /\ fl.pc = "nested"
  /\ \E c \in Causes :
       fl' = [fl EXCEPT !.pc = "finally",
                !.outcome = [type |-> "throw",
                             error |-> Err(FlowFailure(fl.kind, NestedFailure(c)))]]
  /\ openPages' = openPages
  /\ UNCHANGED <<libVars, progVars, retryVars>>

\* getEmailVerificationCode throws; finally { await page.close() }
FlowNestedThrows ==
  /\ fl.pc = "nested"
  /\ \E c \in Causes :
       fl' = [fl EXCEPT !.pc = "finally",
                !.outcome = [type |-> "throw",
                             error |-> Err(FlowFailure(fl.kind, NestedFailure(c)))]]
  /\ openPages' = openPages - 1
  /\ UNCHANGED <<libVars, progVars, retryVars>>

\* finally { await page.close() } and the settling of the flow's promise
FlowFinally ==
  /\ fl.pc = "finally"
  /\ openPages' = openPages - 1
  /\ fl' = IdleFlow
  /\ IF fl.outcome.type = "return"
     THEN /\ RetryFnReturned(FlowValue(fl))
          /\ ca' = IF fl.kind = "createGmailAccount"
                   THEN [ca EXCEPT !.gmailProfile = FlowValue(fl)]
                   ELSE IF fl.kind = "createOutlookAccount"
                   THEN [ca EXCEPT !.outlookProfile = FlowValue(fl)]
                   ELSE ca
          /\ obs' = IF fl.kind = "createAppleID"
                    THEN [obs EXCEPT !.records = Append(@,
                            [email |-> obs.account.emailResult.email,
                             password |-> obs.account.emailResult.password])]
                    ELSE [obs EXCEPT !.account.emailFlow = fl.kind,
                                     !.account.emailResult = FlowValue(fl)]
     ELSE /\ RetryFnThrew(fl.outcome.error)
          /\ ca' = ca
          /\ obs' = [obs EXCEPT !.account.failures[fl.kind] = @ + 1]
  /\ UNCHANGED <<libVars, version, env, pc, browser, file>>

(***************************************************************************)
(* createAccounts of create-accounts.js (version "main")                   *)
(***************************************************************************)
MainMaxRetries == 2
MainRetryDelay == 5000

RetryName(kind) ==
  IF kind = "createGmailAccount" THEN "Gmail account creation"
  ELSE IF kind = "createOutlookAccount" THEN "Outlook account creation"
  ELSE "Apple ID creation"

MainRetry_Three(kind) ==
  RetryFrame(kind, RetryName(kind), MainMaxRetries + 1, MainRetryDelay,
             DefaultRetryMultiplier, "absent")

\* utils.retry(() => flow(browser, ...), { maxRetries: 2, retryDelay: 5000, name })
MainRetry(kind) ==
  RetryFrame(kind, RetryName(kind), MainMaxRetries, MainRetryDelay,
             DefaultRetryMultiplier, "absent")

LaunchFailed == Err(<<"Failed to launch the browser process!">>)

\* const browser = await utils.setupStealthBrowser(puppeteer); accountsData = []
MainLaunch ==
  /\ version = "main" /\ pc = "start"
  /\ \E launched \in BOOLEAN :
       IF launched
       THEN /\ browser' = [ref |-> "open", openInstances |-> 1]
            /\ pc' = "for"
            /\ ca' = NewLocals
       ELSE /\ browser' = browser
            /\ pc' = "threw"
            /\ ca' = [NewLocals EXCEPT !.error = LaunchFailed]
  /\ UNCHANGED <<libVars, version, env, file, obs, flowVars, retryVars>>

\* for (let i = 0; i < ACCOUNTS_COUNT; i++) { ... utils.retry(createGmailAccount)
MainFor ==
  /\ version = "main" /\ pc = "for"
  /\ IF Less(ca.i, ACCOUNTS_COUNT)
     THEN /\ ca' = [ca EXCEPT !.emailProfile = Null, !.isGmail = FALSE,
                           !.gmailProfile = GenerateRandomProfile(ca.i, "a"),
                           !.outlookProfile = Null]
          /\ rt' = MainRetry("createGmailAccount")
          /\ hist' = NewHist
          /\ pc' = "gmail"
          /\ obs' = [obs EXCEPT !.started = Append(@, ca.i),
                                !.account = NewAccountObs]
     ELSE /\ pc' = "save"
          /\ UNCHANGED <<ca, rt, hist, obs>>
  /\ UNCHANGED <<libVars, version, env, browser, file, flowVars>>

\* i++ at the end of an iteration of the account loop: the variables
\* declared in the loop body go out of scope.
NextIteration(locals) ==
  [locals EXCEPT !.i = @ + 1, !.emailProfile = Null, !.isGmail = FALSE,
                 !.gmailProfile = Null, !.outlookProfile = Null]

\* if (emailProfile) { ... utils.retry(createAppleID) }; without an email
\* profile the iteration ends.
MainAfterEmail(profile, gmail) ==
  /\ IF profile # Null
     THEN /\ ca' = [ca EXCEPT !.emailProfile = profile, !.isGmail = gmail]
          /\ rt' = MainRetry("createAppleID")
          /\ hist' = NewHist
          /\ pc' = "apple"
          /\ obs' = obs
     ELSE /\ ca' = NextIteration(ca)
          /\ pc' = "for"
          /\ rt' = IdleFrame
          /\ hist' = NewHist
          /\ obs' = [obs EXCEPT !.account = NewAccountObs]
  /\ UNCHANGED <<libVars, version, env, browser, file, flowVars>>

\* emailProfile = await utils.retry(createGmailAccount ...); isGmail = true
MainGmailReturned ==
  /\ version = "main" /\ pc = "gmail" /\ rt.pc = "returned"
  /\ MainAfterEmail(rt.result, TRUE)

\* catch (gmailError): const profile = generateRandomProfile();
\* utils.retry(createOutlookAccount ...)
MainGmailRejected ==
  /\ version = "main" /\ pc = "gmail" /\ rt.pc = "rejected"
  /\ ca' = [ca EXCEPT !.outlookProfile = GenerateRandomProfile(ca.i, "b")]
  /\ rt' = MainRetry("createOutlookAccount")
  /\ hist' = NewHist
  /\ pc' = "outlook"
  /\ UNCHANGED <<libVars, version, env, browser, file, flowVars, obs>>

MainOutlookReturned_IsGmailTrue ==
  /\ version = "main" /\ pc = "outlook" /\ rt.pc = "returned"
  /\ MainAfterEmail(rt.result, TRUE)

\* emailProfile = await utils.retry(createOutlookAccount ...); isGmail = false
MainOutlookReturned ==
  /\ version = "main" /\ pc = "outlook" /\ rt.pc = "returned"
  /\ MainAfterEmail(rt.result, FALSE)

\* catch (outlookError): throw new Error('Failed to create any email account');
\* the outer catch logs and rethrows.
MainOutlookRejected ==
  /\ version = "main" /\ pc = "outlook" /\ rt.pc = "rejected"
  /\ ca' = [ca EXCEPT !.error = Err(<<"Failed to create any email account">>)]
  /\ pc' = "finally"
  /\ rt' = IdleFrame
  /\ hist' = NewHist
  /\ UNCHANGED <<libVars, version, env, browser, file, flowVars, obs>>

\* accountsData.push(appleAccount); i++
MainAppleReturned ==
  /\ version = "main" /\ pc = "apple" /\ rt.pc = "returned"
  /\ ca' = NextIteration([ca EXCEPT !.accountsData = Append(@, rt.result)])
  /\ pc' = "for"
  /\ rt' = IdleFrame
  /\ hist' = NewHist
  /\ obs' = [obs EXCEPT !.completed = Append(@, ca.i), !.account = NewAccountObs]
  /\ UNCHANGED <<libVars, version, env, browser, file, flowVars>>

MainAppleRejected_Continues ==
  /\ version = "main" /\ pc = "apple" /\ rt.pc = "rejected"
  /\ ca' = NextIteration(ca)
  /\ pc' = "for"
  /\ rt' = IdleFrame
  /\ hist' = NewHist
  /\ UNCHANGED <<libVars, version, env, browser, file, flowVars, obs>>

\* catch (appleError): throw appleError; the outer catch logs and rethrows.
MainAppleRejected ==
  /\ version = "main" /\ pc = "apple" /\ rt.pc = "rejected"
  /\ ca' = [ca EXCEPT !.error = rt.error]
  /\ pc' = "finally"
  /\ rt' = IdleFrame
  /\ hist' = NewHist
  /\ UNCHANGED <<libVars, version, env, browser, file, flowVars, obs>>

\* fs.writeFileSync('accounts.txt', accountsData.map(...).join('\n'))
MainSave ==
  /\ version = "main" /\ pc = "save"
  /\ file' = WriteFileSync(AccountsText(ca.accountsData))
  /\ obs' = [obs EXCEPT !.writes = @ + 1,
                        !.saved = @ \cup SavedBy(ca.accountsData)]
  /\ pc' = "finally"
  /\ UNCHANGED <<libVars, version, env, ca, browser, flowVars, retryVars>>

MainFinally_ClosesOnSuccessOnly ==
  /\ version = "main" /\ pc = "finally"
  /\ browser' = IF ca.error = Null
                THEN [ref |-> "closed", openInstances |-> browser.openInstances - 1]
                ELSE browser
  /\ obs' = IF ca.error = Null THEN [obs EXCEPT !.mainCloseCalls = @ + 1] ELSE obs
  /\ pc' = IF ca.error = Null THEN "done" ELSE "threw"
  /\ UNCHANGED <<libVars, version, env, ca, file, flowVars, retryVars>>

\* finally { await browser.close() }; then createAccounts returns or throws
MainFinally ==
  /\ version = "main" /\ pc = "finally"
  /\ browser' = [ref |-> "closed", openInstances |-> browser.openInstances - 1]
  /\ obs' = [obs EXCEPT !.mainCloseCalls = @ + 1]
  /\ pc' = IF ca.error = Null THEN "done" ELSE "threw"
  /\ UNCHANGED <<libVars, version, env, ca, file, flowVars, retryVars>>

(***************************************************************************)
(* createAccounts of the later version (README.md), version "later".       *)
(* The page opened to test a new browser is not counted in openPages.      *)
(***************************************************************************)
LaterMaxRetries == 3
LaterRetryDelay == 8000
MAX_GLOBAL_ATTEMPTS == 3
MaxPassErrors == 2    \* most failures of the final write of a pass in a run

\* utils.retry(() => flow(browser, ...), { maxRetries: 3, retryDelay: 8000,
\*                                         name, onRetry: async (error, attempt) => ... })
LaterRetry(kind) ==
  RetryFrame(kind, RetryName(kind), LaterMaxRetries, LaterRetryDelay,
             DefaultRetryMultiplier, "restart")

\* await browser.close() on the instance b refers to
Close(b) ==
  [ref |-> "closed",
   openInstances |-> IF b.ref = "open" THEN b.openInstances - 1
                     ELSE b.openInstances]

\* browser = await utils.setupStealthBrowser(puppeteer), fulfilled
Launch(b) == [ref |-> "open", openInstances |-> b.openInstances + 1]

\* while (currentAttempt <= MAX_GLOBAL_ATTEMPTS) { try {
\*   if (!browser || !browser.isConnected()) ...
LaterWhile ==
  /\ version = "later" /\ pc = "while"
  /\ pc' = IF ca.currentAttempt <= MAX_GLOBAL_ATTEMPTS
           THEN (IF browser.ref # "open" THEN "launch" ELSE "pass")
           ELSE "after"
  /\ obs' = IF ca.currentAttempt <= MAX_GLOBAL_ATTEMPTS
            THEN [obs EXCEPT !.attempts = @ + 1] ELSE obs
  /\ UNCHANGED <<libVars, version, env, ca, browser, file, flowVars, retryVars>>

LaterLaunch_KeepsAttempt ==
  /\ version = "later" /\ pc = "launch"
  /\ \E outcome \in {"ok", "launch fails", "test fails"} :
       /\ browser' = IF outcome = "launch fails" THEN browser ELSE Launch(browser)
       /\ pc' = IF outcome = "ok" THEN "pass" ELSE "finally"
       /\ ca' = ca
  /\ UNCHANGED <<libVars, version, env, file, obs, flowVars, retryVars>>

\* browser = await utils.setupStealthBrowser(puppeteer); the test navigation;
\* catch (browserError) { await sleep(5000); currentAttempt++; continue; }
LaterLaunch ==
  /\ version = "later" /\ pc = "launch"
  /\ \E outcome \in {"ok", "launch fails", "test fails"} :
       /\ browser' = IF outcome = "launch fails" THEN browser ELSE Launch(browser)
       /\ IF outcome = "ok"
          THEN /\ pc' = "pass"
               /\ ca' = ca
          ELSE /\ pc' = "finally"
               /\ ca' = [ca EXCEPT !.currentAttempt = @ + 1]
  /\ UNCHANGED <<libVars, version, env, file, obs, flowVars, retryVars>>

\* The random profiles of a later global attempt differ from those of an
\* earlier one: the slot of the call carries the number of the attempt.
PassSlot(slot) ==
  IF ca.currentAttempt = 1 THEN slot
  ELSE IF slot = "a" THEN <<"a2", "a3">>[ca.currentAttempt - 1]
  ELSE <<"b2", "b3">>[ca.currentAttempt - 1]

\* const successfulAccounts = []; for (let i = 0; ...
LaterPass ==
  /\ version = "later" /\ pc = "pass"
  /\ ca' = [ca EXCEPT !.successfulAccounts = <<>>, !.i = 0]
  /\ obs' = [obs EXCEPT !.started = <<>>, !.completed = <<>>, !.writes = 0,
                        !.earlier = Len(obs.records)]
  /\ pc' = "for"
  /\ UNCHANGED <<libVars, version, env, browser, file, flowVars, retryVars>>

\* for (let i = 0; i < ACCOUNTS_COUNT; i++) { gmailProfile, outlookProfile =
\* generateRandomProfile(); ... utils.retry(createGmailAccount)
LaterFor ==
  /\ version = "later" /\ pc = "for"
  /\ IF Less(ca.i, ACCOUNTS_COUNT)
     THEN /\ ca' = [ca EXCEPT !.emailProfile = Null, !.isGmail = FALSE,
                           !.gmailProfile =
                              GenerateRandomProfile(ca.i, PassSlot("a")),
                           !.outlookProfile =
                              GenerateRandomProfile(ca.i, PassSlot("b"))]
          /\ rt' = LaterRetry("createGmailAccount")
          /\ hist' = NewHist
          /\ pc' = "gmail"
          /\ obs' = [obs EXCEPT !.started = Append(@, ca.i),
                                !.account = NewAccountObs]
     ELSE /\ pc' = "save"
          /\ UNCHANGED <<ca, rt, hist, obs>>
  /\ UNCHANGED <<libVars, version, env, browser, file, flowVars>>

\* if (emailProfile) { ... utils.retry(createAppleID) }
LaterAfterEmail(profile, gmail) ==
  /\ IF profile # Null
     THEN /\ ca' = [ca EXCEPT !.emailProfile = profile, !.isGmail = gmail]
          /\ rt' = LaterRetry("createAppleID")
          /\ hist' = NewHist
          /\ pc' = "apple"
          /\ obs' = obs
     ELSE /\ ca' = NextIteration(ca)
          /\ pc' = "for"
          /\ rt' = IdleFrame
          /\ hist' = NewHist
          /\ obs' = [obs EXCEPT !.account = NewAccountObs]
  /\ UNCHANGED <<libVars, version, env, browser, file, flowVars>>

\* emailProfile = await utils.retry(createGmailAccount ...); isGmail = true
LaterGmailReturned ==
  /\ version = "later" /\ pc = "gmail" /\ rt.pc = "returned"
  /\ LaterAfterEmail(rt.result, TRUE)

\* catch (gmailError): utils.retry(createOutlookAccount ...)
LaterGmailRejected ==
  /\ version = "later" /\ pc = "gmail" /\ rt.pc = "rejected"
  /\ rt' = LaterRetry("createOutlookAccount")
  /\ hist' = NewHist
  /\ pc' = "outlook"
  /\ UNCHANGED <<libVars, version, env, ca, browser, file, flowVars, obs>>

\* emailProfile = await utils.retry(createOutlookAccount ...); isGmail = false
LaterOutlookReturned ==
  /\ version = "later" /\ pc = "outlook" /\ rt.pc = "returned"
  /\ LaterAfterEmail(rt.result, FALSE)

\* catch (accountError) { ... continue; }
LaterOutlookRejected ==
  /\ version = "later" /\ pc = "outlook" /\ rt.pc = "rejected"
  /\ ca' = NextIteration(ca)
  /\ pc' = "for"
  /\ rt' = IdleFrame
  /\ hist' = NewHist
  /\ obs' = [obs EXCEPT !.account = NewAccountObs]
  /\ UNCHANGED <<libVars, version, env, browser, file, flowVars>>

\* successfulAccounts.push(appleAccount);
\* fs.writeFileSync('accounts.txt', successfulAccounts.map(...).join('\n')); i++
LaterAppleReturned ==
  /\ version = "later" /\ pc = "apple" /\ rt.pc = "returned"
  /\ ca' = NextIteration([ca EXCEPT !.successfulAccounts = Append(@, rt.result)])
  /\ file' = WriteFileSync(AccountsText(Append(ca.successfulAccounts, rt.result)))
  /\ obs' = [obs EXCEPT !.completed = Append(@, ca.i), !.writes = @ + 1,
                        !.account = NewAccountObs,
                        !.saved = @ \cup SavedBy(Append(ca.successfulAccounts,
                                                        rt.result))]
  /\ pc' = "for"
  /\ rt' = IdleFrame
  /\ hist' = NewHist
  /\ UNCHANGED <<libVars, version, env, browser, flowVars>>

LaterAppleRejected_Stops ==
  /\ version = "later" /\ pc = "apple" /\ rt.pc = "rejected"
  /\ ca' = NextIteration(ca)
  /\ pc' = "save"
  /\ rt' = IdleFrame
  /\ hist' = NewHist
  /\ obs' = [obs EXCEPT !.account = NewAccountObs]
  /\ UNCHANGED <<libVars, version, env, browser, file, flowVars>>

\* catch (appleError) { ... continue; }
LaterAppleRejected ==
  /\ version = "later" /\ pc = "apple" /\ rt.pc = "rejected"
  /\ ca' = NextIteration(ca)
  /\ pc' = "for"
  /\ rt' = IdleFrame
  /\ hist' = NewHist
  /\ obs' = [obs EXCEPT !.account = NewAccountObs]
  /\ UNCHANGED <<libVars, version, env, browser, file, flowVars>>

\* accountsData.push(...successfulAccounts);
\* fs.writeFileSync('accounts.txt', accountsData.map(...).join('\n')); break;
\* The write is the one statement of a pass that can throw outside the
\* try blocks of the account loop: when it does, the file is left as it
\* was and catch (error) { currentAttempt++; ... } ends the global attempt.
LaterSave ==
  /\ version = "later" /\ pc = "save"
  /\ \E written \in IF obs.passErrors < MaxPassErrors THEN BOOLEAN ELSE {TRUE} :
       IF written
       THEN /\ ca' = [ca EXCEPT !.accountsData = @ \o ca.successfulAccounts,
                                !.brk = TRUE]
            /\ file' = WriteFileSync(
                         AccountsText(ca.accountsData \o ca.successfulAccounts))
            /\ obs' = [obs EXCEPT !.writes = @ + 1,
                 !.saved = @ \cup SavedBy(ca.accountsData \o ca.successfulAccounts)]
       ELSE /\ ca' = [ca EXCEPT !.accountsData = @ \o ca.successfulAccounts,
                                !.currentAttempt = @ + 1]
            /\ file' = file
            /\ obs' = [obs EXCEPT !.passErrors = @ + 1]
  /\ pc' = "finally"
  /\ UNCHANGED <<libVars, version, env, browser, flowVars, retryVars>>

\* finally { if (browser) { try { await browser.close() } catch ... } }
LaterFinally ==
  /\ version = "later" /\ pc = "finally"
  /\ IF browser.ref # "null"
     THEN browser' = Close(browser)
     ELSE browser' = browser
  /\ pc' = IF ca.brk THEN "after" ELSE "while"
  /\ UNCHANGED <<libVars, version, env, ca, file, obs, flowVars, retryVars>>

\* if (accountsData.length === 0) throw new Error(...); return accountsData;
LaterAfter ==
  /\ version = "later" /\ pc = "after"
  /\ IF ca.accountsData = <<>>
     THEN /\ pc' = "threw"
          /\ ca' = [ca EXCEPT !.error =
                      Err(<<"Failed to create any accounts after all attempts">>)]
     ELSE /\ pc' = "done"
          /\ ca' = ca
  /\ UNCHANGED <<libVars, version, env, browser, file, obs, flowVars, retryVars>>

LaterOnRetry_NoClose ==
  /\ version = "later" /\ rt.pc = "onretry" /\ rt.onRetry = "restart"
  /\ IF Includes(rt.lastError.message, "timeout")
        \/ Includes(rt.lastError.message, "navigation")
     THEN \E launched \in BOOLEAN :
            IF launched
            THEN /\ browser' = Launch(browser)
                 /\ RetryOnRetryReturned
            ELSE /\ browser' = browser
                 /\ RetryOnRetryThrew(LaunchFailed)
     ELSE /\ RetryOnRetryReturned
          /\ browser' = browser
  /\ UNCHANGED <<libVars, version, env, pc, ca, file, obs, flowVars>>

\* onRetry: if (error.message.includes('timeout') || ...includes('navigation'))
\* { try { await browser.close() } catch (e) {} 
\*   browser = await utils.setupStealthBrowser(puppeteer) }
LaterOnRetry ==
  /\ version = "later" /\ rt.pc = "onretry" /\ rt.onRetry = "restart"
  /\ IF Includes(rt.lastError.message, "timeout")
        \/ Includes(rt.lastError.message, "navigation")
     THEN \E launched \in BOOLEAN :
            IF launched
            THEN /\ browser' = Launch(Close(browser))
                 /\ RetryOnRetryReturned
            ELSE /\ browser' = Close(browser)
                 /\ RetryOnRetryThrew(LaunchFailed)
     ELSE /\ RetryOnRetryReturned
          /\ browser' = browser
  /\ UNCHANGED <<libVars, version, env, pc, ca, file, obs, flowVars>>

(***************************************************************************)
(* The program                                                             *)
(***************************************************************************)
MaxAccounts == 2      \* largest ACCOUNTS_COUNT in the environment

\* Values of the environment variable ACCOUNTS_COUNT
EnvValues ==
  {Null} \cup { [v |-> s] : s \in {<<>>, <<"a", "b", "c">>, <<"-", "1">>,
                                    <<" ", "1", "x">>} }
         \cup { [v |-> ToStr(n)] : n \in 0..MaxAccounts }

\* accounts.txt before the run: absent, or as an earlier run that completed
\* one account left it.
EarlierAccount ==
  [appleEmail |-> <<"olduser", "@outlook.com">>, applePassword |-> <<"OldPw!">>]

PriorFiles == {Null, WriteFileSync(AccountsText(<<EarlierAccount>>))}

Init ==
  /\ version \in {"main", "later"}
  /\ env \in EnvValues
  /\ pc = IF version = "main" THEN "start" ELSE "while"
  /\ ca = NewLocals
  /\ browser = NoBrowser
  /\ file \in PriorFiles
  /\ fl = IdleFlow
  /\ openPages = 0
  /\ obs = [NewObs EXCEPT !.fileAtStart = file]
  /\ rt = IdleFrame
  /\ hist = NewHist
  /\ ws = IdleWait
  /\ gi = IdleGmail
  /\ si = IdleSafe
  /\ cap = IdleCapture
  /\ ol = IdleOutlook

Next ==
  \/ MainLaunch
  \/ MainFor
  \/ MainGmailReturned
  \/ MainGmailRejected
  \/ MainOutlookReturned
  \/ MainOutlookRejected
  \/ MainAppleReturned
  \/ MainAppleRejected
  \/ MainSave
  \/ MainFinally
  \/ LaterWhile
  \/ LaterLaunch
  \/ LaterPass
  \/ LaterFor
  \/ LaterGmailReturned
  \/ LaterGmailRejected
  \/ LaterOutlookReturned
  \/ LaterOutlookRejected
  \/ LaterAppleReturned
  \/ LaterAppleRejected
  \/ LaterSave
  \/ LaterFinally
  \/ LaterAfter
  \/ LaterOnRetry
  \/ RetryLoop
  \/ RetrySleep
  \/ FlowEnter
  \/ FlowStepSucceeds
  \/ FlowStepFails
  \/ FlowNestedEnter
  \/ FlowNestedReturns
  \/ FlowNestedThrows
  \/ FlowFinally

Spec == Init /\ [][Next]_vars

\* The later createAccounts on its own, for every value of ACCOUNTS_COUNT
\* (the spellings of the environment variable that give the default are
\* left out) and without an accounts.txt from an earlier run, which has no
\* part in the control flow of the global attempts.
InitLater ==
  /\ Init
  /\ version = "later"
  /\ env = Null \/ AccountsCount(env) # AccountsCount(Null)
  /\ file = Null

NextLater ==
  \/ LaterWhile
  \/ LaterLaunch
  \/ LaterPass
  \/ LaterFor
  \/ LaterGmailReturned
  \/ LaterGmailRejected
  \/ LaterOutlookReturned
  \/ LaterOutlookRejected
  \/ LaterAppleReturned
  \/ LaterAppleRejected
  \/ LaterSave
  \/ LaterFinally
  \/ LaterAfter
  \/ LaterOnRetry
  \/ RetryLoop
  \/ RetrySleep
  \/ FlowEnter
  \/ FlowStepSucceeds
  \/ FlowStepFails
  \/ FlowNestedEnter
  \/ FlowNestedReturns
  \/ FlowNestedThrows
  \/ FlowFinally

\* createAccounts is an async function that is awaited to the end: a step
\* that can be taken is taken.
SpecFair == InitLater /\ [][NextLater]_vars /\ WF_vars(NextLater)

(***************************************************************************)
(* waitForAnySelector of screenshot-utils.js.  Time passes only while the  *)
(* function awaits.  page.waitForSelector(selector, { timeout }) resolves  *)
(* as soon as the page holds an element for the selector and rejects when  *)
(* its timer fires; a timeout of 0 disables the timer, and a negative one  *)
(* is a timer of 1 ms.  A timer may fire late.                             *)
(***************************************************************************)
MaxSelectors == 3       \* longest list of selectors
MaxTimeoutSeconds == 7  \* longest timeout passed by a caller, in seconds

DefaultTimeout == 15000
ProbeCap == 5000
RoundPause == 1000

\* ms by which a timer may fire late
TimerLate == {0, 1}

Min(a, b) == IF a < b THEN a ELSE b
Max(a, b) == IF a < b THEN b ELSE a

\* Lists of distinct selectors
SelectorLists ==
  UNION { { l \in [1..n -> Universe] : \A j, k \in 1..n : l[j] = l[k] => j = k }
          : n \in 0..MaxSelectors }

\* options.timeout: absent (Null) or a number of ms
TimeoutOptions ==
  {Null} \cup { [v |-> t] : t \in {0, 1} \cup { 1000 * k : k \in 1..MaxTimeoutSeconds } }

\* `None of the selectors found within ${timeout}ms: ${selectors.join(', ')}`
NoneFound(timeout, selectors) ==
  <<"None of the selectors found within ">> \o ToStr(timeout) \o <<"ms: ">>
    \o Join([k \in 1..Len(selectors) |-> <<selectors[k]>>], <<", ">>)

\* const { timeout = 15000 } = options; const startTime = Date.now()
InitWait ==
  /\ version = "none"
  /\ env = Null
  /\ pc = "none"
  /\ ca = NewLocals
  /\ browser = NoBrowser
  /\ file = Null
  /\ fl = IdleFlow
  /\ openPages = 0
  /\ obs = NewObs
  /\ rt = IdleFrame
  /\ hist = NewHist
  /\ gi = IdleGmail
  /\ si = IdleSafe
  /\ cap = IdleCapture
  /\ ol = IdleOutlook
  /\ \E l \in SelectorLists, o \in TimeoutOptions, present \in SUBSET Universe :
       ws = [IdleWait EXCEPT
               !.pc = "outer", !.selectors = l,
               !.timeout = IF o = Null THEN DefaultTimeout ELSE o.v,
               !.attempt = 1,
               !.presentSince = [s \in Universe |-> IF s \in present THEN 0 ELSE Never],
               !.presentAtStart = present]

\* for (let attempt = 1; Date.now() - startTime < timeout; attempt++);
\* after the loop: throw new Error(`None of the selectors found ...`)
WaitOuter ==
  /\ ws.pc = "outer"
  /\ ws' = IF ws.now < ws.timeout
           THEN [ws EXCEPT !.pc = "inner", !.idx = 1, !.probed = <<>>]
           ELSE [ws EXCEPT !.pc = "threw",
                           !.error = Err(NoneFound(ws.timeout, ws.selectors))]
  /\ UNCHANGED <<progVars, flowVars, retryVars, gi, si, cap, ol>>

\* for (const selector of selectors): page.waitForSelector(selector,
\*   { visible, timeout: Math.min(5000, timeout - (Date.now() - startTime)) });
\* after the last selector: if (Date.now() - startTime < timeout) the pause
WaitInner ==
  /\ ws.pc = "inner"
  /\ ws' = IF ws.idx <= Len(ws.selectors)
           THEN [ws EXCEPT
                   !.pc = "probe",
                   !.probeTimeout = Min(ProbeCap, ws.timeout - ws.now),
                   !.probed = Append(@, ws.selectors[ws.idx])]
           ELSE IF ws.now < ws.timeout
           THEN [ws EXCEPT !.pc = "sleep"]
           ELSE [ws EXCEPT !.pc = "outer", !.attempt = @ + 1]
  /\ UNCHANGED <<progVars, flowVars, retryVars, gi, si, cap, ol>>

\* How long after the start of a wait an absent element may turn up.
AppearOffsets(t) ==
  IF t > 1 THEN {1, t - 1}
  ELSE IF t = 0 THEN {1, RoundPause}
  ELSE {}

\* page.waitForSelector resolves: return selector
WaitProbeFound ==
  /\ ws.pc = "probe"
  /\ LET s == ws.selectors[ws.idx] IN
       \E d \in IF ws.presentSince[s] # Never THEN {0}
                ELSE AppearOffsets(ws.probeTimeout) :
         ws' = [ws EXCEPT
                  !.pc = "returned",
                  !.now = @ + d,
                  !.presentSince[s] = IF @ = Never THEN ws.now + d ELSE @,
                  !.result = [selector |-> s]]
  /\ UNCHANGED <<progVars, flowVars, retryVars, gi, si, cap, ol>>

\* page.waitForSelector rejects with a TimeoutError: catch (e) {}, next selector
WaitProbeTimeout ==
  /\ ws.pc = "probe"
  /\ ws.probeTimeout # 0
  /\ ws.presentSince[ws.selectors[ws.idx]] = Never \/ ws.probeTimeout < 0
  /\ \E late \in TimerLate :
       ws' = [ws EXCEPT !.pc = "inner", !.idx = @ + 1,
                        !.now = @ + Max(ws.probeTimeout, 1) + late]
  /\ UNCHANGED <<progVars, flowVars, retryVars, gi, si, cap, ol>>

\* await new Promise(resolve => setTimeout(resolve, 1000)); attempt++
WaitSleep ==
  /\ ws.pc = "sleep"
  /\ \E late \in TimerLate :
       ws' = [ws EXCEPT !.pc = "outer", !.attempt = @ + 1,
                        !.now = @ + RoundPause + late]
  /\ UNCHANGED <<progVars, flowVars, retryVars, gi, si, cap, ol>>

\* The page changes while the function runs: an element for a selector of
\* the list that is not being waited for turns up.
PageAppears ==
  /\ ws.pc \in {"inner", "probe", "sleep"}
  /\ \E k \in 1..Len(ws.selectors) : LET s == ws.selectors[k] IN
       /\ ws.presentSince[s] = Never
       /\ ws.pc = "probe" => s # ws.selectors[ws.idx]
       /\ ws' = [ws EXCEPT !.presentSince[s] = ws.now]
  /\ UNCHANGED <<progVars, flowVars, retryVars, gi, si, cap, ol>>

WaitStep ==
  \/ WaitOuter
  \/ WaitInner
  \/ WaitProbeTimeout
  \/ WaitSleep

NextWait ==
  \/ WaitOuter
  \/ WaitInner
  \/ WaitProbeFound
  \/ WaitProbeTimeout
  \/ WaitSleep
  \/ PageAppears

SpecWait == InitWait /\ [][NextWait]_vars

\* The timers of the event loop fire and the function goes on when it can.
SpecWaitFair == SpecWait /\ WF_vars(WaitStep)

(***************************************************************************)
(* The waitForAnySelector of the fallback screenshotUtils (README.md), and *)
(* after it the waitForAnySelector of screenshot-utils.js, called with the *)
(* same arguments on a page with the same content.  The fallback passes no *)
(* `visible` option, so its waits resolve for an element that is in the    *)
(* page, visible or not; the full function waits for a visible element.    *)
(* The two calls are independent: the second one starts when the first has *)
(* ended.  The clock of the fallback is not modelled.                      *)
(***************************************************************************)
\* `None of the selectors found: ${selectors.join(', ')}`
NoneFoundFallback(selectors) ==
  <<"None of the selectors found: ">>
    \o Join([k \in 1..Len(selectors) |-> <<selectors[k]>>], <<", ">>)

\* The selectors for which the page holds an element during the fallback
InPage == ws.presentAtStart \cup ws.fallback.hidden \cup ws.fallback.appeared

\* const timeout = options.timeout || 15000
InitFallback ==
  /\ version = "none"
  /\ env = Null
  /\ pc = "none"
  /\ ca = NewLocals
  /\ browser = NoBrowser
  /\ file = Null
  /\ fl = IdleFlow
  /\ openPages = 0
  /\ obs = NewObs
  /\ rt = IdleFrame
  /\ hist = NewHist
  /\ gi = IdleGmail
  /\ si = IdleSafe
  /\ cap = IdleCapture
  /\ ol = IdleOutlook
  /\ \E l \in SelectorLists, o \in TimeoutOptions, present \in SUBSET Universe :
       \E hidden \in SUBSET (Universe \ present) :
         ws = [IdleWait EXCEPT
                 !.selectors = l,
                 !.timeout = IF o = Null THEN DefaultTimeout ELSE o.v,
                 !.presentSince = [s \in Universe |-> IF s \in present THEN 0 ELSE Never],
                 !.presentAtStart = present,
                 !.fallback =
                    [IdleFallback EXCEPT
                       !.pc = "loop", !.option = o, !.idx = 1, !.hidden = hidden,
                       !.timeout = IF o = Null \/ o.v = 0 THEN DefaultTimeout
                                   ELSE o.v]]

\* for (const selector of selectors): await page.waitForSelector(selector,
\* { timeout }); after the loop: throw new Error(`None of the selectors ...`)
FallbackLoop ==
  /\ ws.fallback.pc = "loop"
  /\ ws' = IF ws.fallback.idx <= Len(ws.selectors)
           THEN [ws EXCEPT
                   !.fallback.pc = "probe",
                   !.fallback.probes =
                      Append(@, [selector |-> ws.selectors[ws.fallback.idx],
                                 timeout |-> ws.fallback.timeout])]
           ELSE [ws EXCEPT
                   !.fallback.pc = "threw",
                   !.fallback.error = Err(NoneFoundFallback(ws.selectors))]
  /\ UNCHANGED <<progVars, flowVars, retryVars, gi, si, cap, ol>>

\* page.waitForSelector resolves, at once or when the element turns up
\* during the wait: return selector
FallbackProbeFound ==
  /\ ws.fallback.pc = "probe"
  /\ LET s == ws.selectors[ws.fallback.idx] IN
       ws' = [ws EXCEPT
                !.fallback.pc = "returned",
                !.fallback.appeared = IF s \in InPage THEN @ ELSE @ \cup {s},
                !.fallback.result = [selector |-> s]]
  /\ UNCHANGED <<progVars, flowVars, retryVars, gi, si, cap, ol>>

\* A rejected wait that is not caught would end the call
FallbackProbeTimeout_NotCaught ==
  /\ ws.fallback.pc = "probe"
  /\ ws.fallback.timeout # 0
  /\ ws.selectors[ws.fallback.idx] \notin InPage
  /\ ws' = [ws EXCEPT !.fallback.pc = "threw",
                      !.fallback.error = Err(<<"Waiting for selector failed">>)]
  /\ UNCHANGED <<progVars, flowVars, retryVars, gi, si, cap, ol>>

\* page.waitForSelector rejects with a TimeoutError:
\* catch (e) { console.log(`Selector ${selector} not found`) }, next selector
FallbackProbeTimeout ==
  /\ ws.fallback.pc = "probe"
  /\ ws.fallback.timeout # 0
  /\ ws.selectors[ws.fallback.idx] \notin InPage
  /\ ws' = [ws EXCEPT !.fallback.pc = "loop", !.fallback.idx = @ + 1]
  /\ UNCHANGED <<progVars, flowVars, retryVars, gi, si, cap, ol>>

\* The page changes during the fallback: an element for a selector of the
\* list that is not being waited for turns up.
FallbackPageAppears ==
  /\ ws.fallback.pc = "probe"
  /\ \E k \in 1..Len(ws.selectors) : LET s == ws.selectors[k] IN
       /\ s \notin InPage
       /\ k # ws.fallback.idx
       /\ ws' = [ws EXCEPT !.fallback.appeared = @ \cup {s}]
  /\ UNCHANGED <<progVars, flowVars, retryVars, gi, si, cap, ol>>

\* The same call of the waitForAnySelector of screenshot-utils.js:
\* const { timeout = 15000 } = options; const startTime = Date.now()
FullStarts ==
  /\ ws.fallback.pc \in {"returned", "threw"}
  /\ ws.pc = "idle"
  /\ ws' = [ws EXCEPT !.pc = "outer", !.attempt = 1]
  /\ UNCHANGED <<progVars, flowVars, retryVars, gi, si, cap, ol>>

NextFallback ==
  \/ FallbackLoop
  \/ FallbackProbeFound
  \/ FallbackProbeTimeout
  \/ FallbackPageAppears
  \/ FullStarts
  \/ NextWait

SpecFallback == InitFallback /\ [][NextFallback]_vars

(***************************************************************************)
(* createGmailAccounts of gmail-interface.js (version "current") and of    *)
(* its earlier version (version "earlier").  The child processes are the   *)
(* environment: they emit their events in any order that Node allows (no   *)
(* data after 'close'), and the script may write the output file while it  *)
(* runs.  The calls into fs are taken to succeed.                          *)
(***************************************************************************)
MaxChunks == 2   \* most 'data' events of the script process
MaxWrites == 2   \* most writes of the output file by the script

\* fileContent.replace('Username: ', ''): the first occurrence is removed
RECURSIVE Replace(_, _)
Replace(line, token) ==
  IF line = <<>> THEN <<>>
  ELSE IF Head(line) = token THEN Tail(line)
  ELSE <<Head(line)>> \o Replace(Tail(line), token)

RECURSIVE TrimStart(_)
TrimStart(line) ==
  IF line # <<>> /\ Head(line) = " " THEN TrimStart(Tail(line)) ELSE line

RECURSIVE TrimEnd(_)
TrimEnd(line) ==
  IF line # <<>> /\ line[Len(line)] = " "
  THEN TrimEnd(SubSeq(line, 1, Len(line) - 1)) ELSE line

\* String.prototype.trim
Trim(line) == TrimEnd(TrimStart(line))

\* lines[i] of a JavaScript array (0-based): undefined past the end, and
\* undefined is as falsy as the empty string.
LineAt(lines, i) == IF i + 1 <= Len(lines) THEN lines[i + 1] ELSE <<>>

\* for (let i = 0; i < lines.length; i += 3) { ... accounts.push(...) }
RECURSIVE ParseFrom(_, _)
ParseFrom(lines, i) ==
  IF i >= Len(lines) THEN <<>>
  ELSE LET usernameLine == LineAt(lines, i)
           passwordLine == LineAt(lines, i + 1)
           username == Trim(Replace(usernameLine, "Username: "))
           password == Trim(Replace(passwordLine, "Password: "))
       IN (IF usernameLine # <<>> /\ passwordLine # <<>>
              /\ username # <<>> /\ password # <<>>
           THEN <<[email |-> username \o <<"@gmail.com">>, password |-> password]>>
           ELSE <<>>)
          \o ParseFrom(lines, i + 3)

\* parseCreatedAccounts(fileContent)
ParseCreatedAccounts(fileContent) == ParseFrom(Split(fileContent), 0)

\* What the script writes for one account.
CreatedText(username, password) ==
  <<"Username: ", username, "\n", "Password: ", password, "\n", "\n">>

\* The output file left by an earlier invocation.
StaleFiles == {Null, [text |-> CreatedText("old", "oldpw")]}

\* What the script may leave in the output file.
ScriptTexts ==
  { <<>>,
    CreatedText("new1", "pw1"),
    CreatedText("new1", "pw1") \o CreatedText("new2", "pw2"),
    <<"Username: ", "new1", "\n", "Password: ", "pw1", "\n",
      "Username: ", "new2", "\n", "Password: ", "pw2", "\n">>,
    <<"Username: ", " ", "\n", "Password: ", "pw1", "\n", "\n">> }

\* The value of code in the 'close' handler: a number, or null (the record
\* Null) when the process was ended by a signal.
ExitCode(n) == [code |-> n]

CodeText(code) == IF code = Null THEN <<"null">> ELSE ToStr(code.code)

\* Settle for a promise that the last call of resolve or reject settles
Settle_LastWins(g, state, value) ==
  [g EXCEPT !.promise = state, !.value = value, !.settles = @ + 1]

\* resolve(value) or reject(error) of the promise: only the first call of
\* either settles it.
Settle(g, state, value) ==
  IF g.promise = "pending"
  THEN [g EXCEPT !.promise = state, !.value = value, !.settles = @ + 1]
  ELSE [g EXCEPT !.settles = @ + 1]

InitGmail ==
  /\ version = "none"
  /\ env = Null
  /\ pc = "none"
  /\ ca = NewLocals
  /\ browser = NoBrowser
  /\ file = Null
  /\ fl = IdleFlow
  /\ openPages = 0
  /\ obs = NewObs
  /\ rt = IdleFrame
  /\ hist = NewHist
  /\ ws = IdleWait
  /\ si = IdleSafe
  /\ cap = IdleCapture
  /\ ol = IdleOutlook
  /\ \E v \in {"current", "earlier"}, f \in StaleFiles, e \in BOOLEAN :
       gi = [IdleGmail EXCEPT !.pc = "start", !.version = v,
                              !.outputFile = f, !.scriptExists = e,
                              !.staleAtStart = (f # Null)]

GmailStart_KeepsFile ==
  /\ gi.pc = "start"
  /\ gi' = IF ~gi.scriptExists
           THEN [Settle(gi, "rejected",
                        Err(<<"Gmail creator script not found at ",
                              "Gmail/gmail-creator.py">>))
                   EXCEPT !.pc = "done"]
           ELSE IF gi.version = "current"
           THEN [gi EXCEPT !.pc = "pip", !.pip = "running"]
           ELSE [gi EXCEPT !.pc = "events",
                           !.tempScript = TRUE, !.child = "running",
                           !.spawned = @ + 1]
  /\ UNCHANGED <<progVars, flowVars, retryVars, ws, si, cap, ol>>

\* if (fs.existsSync(outputFile)) fs.unlinkSync(outputFile);
\* if (!fs.existsSync(scriptPath)) throw ...; then the dependency install
\* is spawned (current) or the script is (earlier)
GmailStart ==
  /\ gi.pc = "start"
  /\ gi' = IF ~gi.scriptExists
           THEN [Settle(gi, "rejected",
                        Err(<<"Gmail creator script not found at ",
                              "Gmail/gmail-creator.py">>))
                   EXCEPT !.pc = "done", !.outputFile = Null]
           ELSE IF gi.version = "current"
           THEN [gi EXCEPT !.pc = "pip", !.outputFile = Null, !.pip = "running"]
           ELSE [gi EXCEPT !.pc = "events", !.outputFile = Null,
                           !.tempScript = TRUE, !.child = "running",
                           !.spawned = @ + 1]
  /\ UNCHANGED <<progVars, flowVars, retryVars, ws, si, cap, ol>>

\* GmailPipClose going on to the script whatever the exit code
GmailPipClose_IgnoresCode ==
  /\ gi.pc = "pip"
  /\ \E code \in {ExitCode(0), ExitCode(1), Null} :
       gi' = [gi EXCEPT !.pc = "events", !.tempScript = TRUE,
                        !.pip = IF code = ExitCode(0) THEN "installed" ELSE "failed",
                        !.child = "running", !.spawned = @ + 1]
  /\ UNCHANGED <<progVars, flowVars, retryVars, ws, si, cap, ol>>

\* pipProcess.on('close', code => code !== 0 ? reject(...) : resolve());
\* after it: the temporary script is written and the script is spawned
GmailPipClose ==
  /\ gi.pc = "pip"
  /\ \E code \in {ExitCode(0), ExitCode(1), Null} :
       gi' = IF code = ExitCode(0)
             THEN [gi EXCEPT !.pc = "events", !.tempScript = TRUE,
                             !.pip = "installed",
                             !.child = "running", !.spawned = @ + 1]
             ELSE [Settle(gi, "rejected",
                          Err(<<"Failed to install Python dependencies: ",
                                "Failed to install Python dependencies with code ">>
                              \o CodeText(code)))
                     EXCEPT !.pc = "done", !.pip = "failed"]
  /\ UNCHANGED <<progVars, flowVars, retryVars, ws, si, cap, ol>>

\* pipProcess.on('error', error => reject(new Error(`Failed to start pip: ...`)))
GmailPipError ==
  /\ gi.pc = "pip"
  /\ gi' = [Settle(gi, "rejected",
                   Err(<<"Failed to install Python dependencies: ",
                         "Failed to start pip: ", "spawn pip3 ENOENT">>))
              EXCEPT !.pc = "done", !.pip = "not started"]
  /\ UNCHANGED <<progVars, flowVars, retryVars, ws, si, cap, ol>>

\* The script writes the output file.
ScriptWrites ==
  /\ gi.pc = "events" /\ gi.child = "running" /\ gi.writes < MaxWrites
  /\ \E text \in ScriptTexts :
       gi' = [gi EXCEPT !.outputFile = [text |-> text], !.writes = @ + 1]
  /\ UNCHANGED <<progVars, flowVars, retryVars, ws, si, cap, ol>>

\* pythonProcess.stdout.on('data', ...): a chunk with one of the error
\* markers kills the process and rejects (current version only)
GmailStdout ==
  /\ gi.pc = "events" /\ gi.child = "running" /\ gi.chunks < MaxChunks
  /\ \E marker \in BOOLEAN :
       gi' = IF marker /\ gi.version = "current"
             THEN [Settle(gi, "rejected",
                          Err(<<"Gmail account creation failed: ",
                                "Exiting script due to error">>))
                     EXCEPT !.chunks = @ + 1, !.killed = TRUE,
                            !.markers = @ + 1]
             ELSE [gi EXCEPT !.chunks = @ + 1,
                             !.markers = IF marker THEN @ + 1 ELSE @]
  /\ UNCHANGED <<progVars, flowVars, retryVars, ws, si, cap, ol>>

\* pythonProcess.stderr.on('data', ...): stderrData += error; the current
\* version kills the process and rejects
GmailStderr ==
  /\ gi.pc = "events" /\ gi.child = "running" /\ gi.chunks < MaxChunks
  /\ gi' = IF gi.version = "current"
           THEN [Settle(gi, "rejected",
                        Err(<<"Gmail account creation failed: ", "Traceback">>))
                   EXCEPT !.chunks = @ + 1, !.killed = TRUE,
                          !.stderrData = @ \o <<"Traceback">>]
           ELSE [gi EXCEPT !.chunks = @ + 1, !.stderrData = @ \o <<"Traceback">>]
  /\ UNCHANGED <<progVars, flowVars, retryVars, ws, si, cap, ol>>

\* pythonProcess.on('close', code => { ... })
GmailClose ==
  /\ gi.pc = "events" /\ gi.child = "running"
  /\ \E code \in {ExitCode(0), ExitCode(1)} \cup (IF gi.killed THEN {Null} ELSE {}) :
       LET g == [gi EXCEPT !.pc = "done", !.child = "exited", !.closed = TRUE,
                           !.exitCode = code, !.tempScript = FALSE]
       IN gi' =
            IF code # ExitCode(0)
            THEN Settle(g, "rejected",
                        Err(<<"Gmail account creation failed with code ">>
                            \o CodeText(code) \o <<": ">> \o gi.stderrData))
            ELSE IF gi.outputFile = Null
            THEN Settle(g, "rejected",
                        Err(<<"Gmail account creation did not produce any output file">>))
            ELSE IF ParseCreatedAccounts(gi.outputFile.text) = <<>>
            THEN Settle(g, "rejected", Err(<<"No Gmail accounts were created">>))
            ELSE Settle(g, "resolved",
                        [accounts |-> ParseCreatedAccounts(gi.outputFile.text)])
  /\ UNCHANGED <<progVars, flowVars, retryVars, ws, si, cap, ol>>

\* pythonProcess.on('error', error => reject(new Error(`Failed to start ...`)))
GmailError ==
  /\ gi.pc = "events" /\ gi.child = "running" /\ ~gi.errored
  /\ gi' = [Settle(gi, "rejected",
                   Err(<<"Failed to start Gmail creator: ", "spawn python3 ENOENT">>))
              EXCEPT !.errored = TRUE]
  /\ UNCHANGED <<progVars, flowVars, retryVars, ws, si, cap, ol>>

NextGmail ==
  \/ GmailStart
  \/ GmailPipClose
  \/ GmailPipError
  \/ ScriptWrites
  \/ GmailStdout
  \/ GmailStderr
  \/ GmailClose
  \/ GmailError

SpecGmail == InitGmail /\ [][NextGmail]_vars

\* The 'close' event of the script process can be emitted
ScriptRunning == gi.pc = "events" /\ gi.child = "running"

\* A child process that was started comes to an end: its 'close' event is
\* emitted, also after it was killed and after a failed spawn.  The last
\* conjunct is weak fairness of GmailClose with its enabling condition
\* written out.
SpecGmailFair ==
  /\ SpecGmail
  /\ WF_vars(GmailStart)
  /\ WF_vars(GmailPipClose \/ GmailPipError)
  /\ ([]<>~ScriptRunning \/ []<><<GmailClose>>_vars)

(***************************************************************************)
(* safeInteraction of utils.js.  JavaScript runs to completion: statements *)
(* with no await between them are one step, and an event of the browser    *)
(* is delivered between steps.  The promise of page.waitForNavigation      *)
(* resolves with the first navigation delivered after it was created and   *)
(* rejects when its timer fires; Promise.all rejects with the first        *)
(* rejection of its elements and resolves when all have resolved.          *)
(***************************************************************************)
SelectorTimeout(selector) ==
  Err(<<"waiting for selector ", selector, " failed: ", "timeout", " 10000ms exceeded">>)
NavigationTimeout == Err(<<"Navigation ", "timeout", " of 30000 ms exceeded">>)

InitSafe ==
  /\ version = "none"
  /\ env = Null
  /\ pc = "none"
  /\ ca = NewLocals
  /\ browser = NoBrowser
  /\ file = Null
  /\ fl = IdleFlow
  /\ openPages = 0
  /\ obs = NewObs
  /\ rt = IdleFrame
  /\ hist = NewHist
  /\ ws = IdleWait
  /\ gi = IdleGmail
  /\ cap = IdleCapture
  /\ ol = IdleOutlook
  /\ \E s \in {Null, [v |-> "#a"], [v |-> "#b"]}, n \in BOOLEAN :
       si = [IdleSafe EXCEPT !.pc = "try", !.selector = s,
                             !.waitForNavigation = n]

\* if (selector) { await page.waitForSelector(selector, { timeout }) }
SafeTry ==
  /\ si.pc = "try"
  /\ si' = IF si.selector # Null
           THEN [si EXCEPT !.pc = "selector",
                           !.events = Append(@, "waitForSelector")]
           ELSE [si EXCEPT !.pc = "action"]
  /\ UNCHANGED <<progVars, flowVars, retryVars, ws, gi, cap, ol>>

\* page.waitForSelector resolves
SafeSelectorFound ==
  /\ si.pc = "selector"
  /\ si' = [si EXCEPT !.pc = "action", !.waited = "found"]
  /\ UNCHANGED <<progVars, flowVars, retryVars, ws, gi, cap, ol>>

\* SafeSelectorTimeout with the rejection of the wait swallowed
SafeSelectorTimeout_Continues ==
  /\ si.pc = "selector"
  /\ si' = [si EXCEPT !.pc = "action", !.waited = "failed"]
  /\ UNCHANGED <<progVars, flowVars, retryVars, ws, gi, cap, ol>>

\* page.waitForSelector rejects: catch (error) { log(...); throw error; }
SafeSelectorTimeout ==
  /\ si.pc = "selector"
  /\ si' = [si EXCEPT !.pc = "threw", !.waited = "failed",
                      !.error = SelectorTimeout(si.selector.v)]
  /\ UNCHANGED <<progVars, flowVars, retryVars, ws, gi, cap, ol>>

\* const actionPromise = action(); if (waitForNavigation) { await
\* Promise.all([actionPromise, page.waitForNavigation(navigationOptions)]) }
\* else { await actionPromise }: up to the await.
SafeAction ==
  /\ si.pc = "action"
  /\ \/ si' = [si EXCEPT
            !.pc = "await",
            !.action = "pending",
            !.navigation = IF si.waitForNavigation THEN "pending" ELSE @,
            !.events = IF si.waitForNavigation
                       THEN @ \o <<"action", "waitForNavigation">>
                       ELSE Append(@, "action")]
     \* action is not an async function and throws before it returns
     \/ \E c \in Causes :
          si' = [si EXCEPT
            !.pc = "threw", !.action = "rejected", !.actionError = Err(c),
            !.first = "action", !.error = Err(c),
            !.events = Append(@, "action")]
  /\ UNCHANGED <<progVars, flowVars, retryVars, ws, gi, cap, ol>>

\* actionPromise settles
SafeActionSettles ==
  /\ si.action = "pending"
  /\ \/ si' = [si EXCEPT !.action = "fulfilled"]
     \/ \E c \in Causes :
          si' = [si EXCEPT !.action = "rejected", !.actionError = Err(c),
                           !.first = IF @ = "none" THEN "action" ELSE @]
  /\ UNCHANGED <<progVars, flowVars, retryVars, ws, gi, cap, ol>>

\* SafeNavigates for a watcher that misses a navigation delivered before
\* the action promise settles
SafeNavigates_Missed ==
  /\ si.action # "none" /\ ~si.navigated
  /\ si' = [si EXCEPT !.navigated = TRUE,
                      !.navigation = IF @ = "pending" /\ si.action # "pending"
                                     THEN "fulfilled" ELSE @]
  /\ UNCHANGED <<progVars, flowVars, retryVars, ws, gi, cap, ol>>

\* The navigation the action set off is delivered to the page; a pending
\* promise of page.waitForNavigation resolves.
SafeNavigates ==
  /\ si.action # "none" /\ ~si.navigated
  /\ si' = [si EXCEPT !.navigated = TRUE,
                      !.navigation = IF @ = "pending" THEN "fulfilled" ELSE @]
  /\ UNCHANGED <<progVars, flowVars, retryVars, ws, gi, cap, ol>>

\* The timer of page.waitForNavigation fires
SafeNavigationTimeout ==
  /\ si.navigation = "pending"
  /\ si' = [si EXCEPT !.navigation = "rejected",
                      !.navigationError = NavigationTimeout,
                      !.first = IF @ = "none" THEN "navigation" ELSE @]
  /\ UNCHANGED <<progVars, flowVars, retryVars, ws, gi, cap, ol>>

\* The awaited promise has settled: return true, or
\* catch (error) { log(...); throw error; }
SafeSettles ==
  /\ si.pc = "await"
  /\ \/ /\ si.action = "fulfilled"
        /\ si.navigation \in {"none", "fulfilled"}
        /\ si' = [si EXCEPT !.pc = "returned", !.result = TRUE]
     \/ /\ si.first # "none"
        /\ si' = [si EXCEPT !.pc = "threw",
                    !.error = IF si.first = "action" THEN si.actionError
                              ELSE si.navigationError]
  /\ UNCHANGED <<progVars, flowVars, retryVars, ws, gi, cap, ol>>

NextSafe ==
  \/ SafeTry
  \/ SafeSelectorFound
  \/ SafeSelectorTimeout
  \/ SafeAction
  \/ SafeActionSettles
  \/ SafeNavigates
  \/ SafeNavigationTimeout
  \/ SafeSettles

SpecSafe == InitSafe /\ [][NextSafe]_vars

(***************************************************************************)
(* The later createOutlookAccount (README.md).  Its try block is a row of  *)
(* stages; the statements of a stage resolve, or one of them rejects.  The *)
(* form stages have a try of their own whose catch block looks for any     *)
(* input on the page; the statements of that catch block are not guarded.  *)
(* The diagnostic captures between the stages never throw.                 *)
(***************************************************************************)
OutlookStages ==
  <<"navigate", "bot detection", "username", "password", "name", "birth date",
    "captcha", "phone verification", "final navigation">>

\* Stages with a try of their own and a fallback in its catch block
OutlookFormStages == {"username", "password", "name", "birth date"}

\* Stages with a try of their own whose catch block only logs
OutlookGuardedStages == {"captcha", "final navigation"}

OutlookStage == OutlookStages[ol.stage]

BotDetected == Err(<<"Bot detection detected on Outlook signup page">>)
NoUsernameInput == Err(<<"Could not find any input field for username/email">>)

\* throw new Error(`Phone verification failed: ${error.message}`)
PhoneVerificationFailed(error) ==
  Err(<<"Phone verification failed: ">> \o error.message)

\* throw new Error(`Failed to create Outlook account: ${error.message}`)
OutlookFlowError(error) ==
  Err(<<"Failed to create Outlook account: ">> \o error.message)

InitOutlook ==
  /\ version = "none"
  /\ env = Null
  /\ pc = "none"
  /\ ca = NewLocals
  /\ browser = NoBrowser
  /\ file = Null
  /\ fl = IdleFlow
  /\ openPages = 0
  /\ obs = NewObs
  /\ rt = IdleFrame
  /\ hist = NewHist
  /\ ws = IdleWait
  /\ gi = IdleGmail
  /\ si = IdleSafe
  /\ cap = IdleCapture
  /\ ol = [IdleOutlook EXCEPT !.pc = "try", !.stage = 1, !.part = "standard"]

\* The stage is over and the next statement of the try block is reached
OutlookNext(o, outcome) ==
  IF o.stage = Len(OutlookStages)
  THEN [o EXCEPT !.pc = "return", !.part = "none", !.how = Append(@, outcome)]
  ELSE [o EXCEPT !.stage = @ + 1, !.part = "standard",
                 !.how = Append(@, outcome)]

\* An error leaves the try block: catch (error) of createOutlookAccount
OutlookThrows(o, error) ==
  [o EXCEPT !.pc = "catch", !.part = "none", !.failedAt = o.stage,
            !.cause = error]

\* The statements of the stage resolve
OutlookStageDone ==
  /\ ol.pc = "try" /\ ol.part = "standard"
  /\ ol' = OutlookNext(ol, "done")
  /\ UNCHANGED <<progVars, flowVars, retryVars, ws, gi, si, cap>>

\* A statement of the stage rejects (the bot detection: returns true)
OutlookStageFails ==
  /\ ol.pc = "try" /\ ol.part = "standard"
  /\ \E c \in Causes :
       ol' = IF OutlookStage = "bot detection"
             THEN OutlookThrows(ol, BotDetected)
             ELSE IF OutlookStage \in OutlookFormStages
             THEN [ol EXCEPT !.part = "fallback", !.inner = Err(c)]
             ELSE IF OutlookStage \in OutlookGuardedStages
             THEN OutlookNext(ol, "skipped")
             ELSE IF OutlookStage = "phone verification"
             THEN OutlookThrows([ol EXCEPT !.inner = Err(c)],
                                PhoneVerificationFailed(Err(c)))
             ELSE OutlookThrows(ol, Err(c))
  /\ UNCHANGED <<progVars, flowVars, retryVars, ws, gi, si, cap>>

\* The catch block of a form stage: page.$$(...), then the inputs found are
\* filled and the first button is clicked; with no input found the stage
\* is left (the username stage throws)
OutlookFallback ==
  /\ ol.pc = "try" /\ ol.part = "fallback"
  /\ \/ ol' = OutlookNext(ol, "fallback")
     \/ ol' = IF OutlookStage = "username"
              THEN OutlookThrows(ol, NoUsernameInput)
              ELSE OutlookNext(ol, "skipped")
     \/ \E c \in Causes : ol' = OutlookThrows(ol, Err(c))
  /\ UNCHANGED <<progVars, flowVars, retryVars, ws, gi, si, cap>>

\* utils.log('Outlook account created successfully', 'success');
\* profile.email = `${profile.username}@outlook.com`; return profile
OutlookReturn ==
  /\ ol.pc = "return"
  /\ ol' = [ol EXCEPT !.pc = "finally", !.success = TRUE,
                      !.result = [email |-> <<"user", "@outlook.com">>]]
  /\ UNCHANGED <<progVars, flowVars, retryVars, ws, gi, si, cap>>

\* catch (error): the captures, then
\* throw new Error(`Failed to create Outlook account: ${error.message}`)
OutlookCatch ==
  /\ ol.pc = "catch"
  /\ ol' = [ol EXCEPT !.pc = "finally", !.error = OutlookFlowError(ol.cause)]
  /\ UNCHANGED <<progVars, flowVars, retryVars, ws, gi, si, cap>>

\* finally { await page.close().catch(() => {}) }
OutlookFinally ==
  /\ ol.pc = "finally"
  /\ ol' = [ol EXCEPT !.pc = IF ol.error = Null THEN "returned" ELSE "threw",
                      !.pageClosed = TRUE]
  /\ UNCHANGED <<progVars, flowVars, retryVars, ws, gi, si, cap>>

NextOutlook ==
  \/ OutlookStageDone
  \/ OutlookStageFails
  \/ OutlookFallback
  \/ OutlookReturn
  \/ OutlookCatch
  \/ OutlookFinally

SpecOutlook == InitOutlook /\ [][NextOutlook]_vars

(***************************************************************************)
(* captureScreenshot and captureHtml of screenshot-utils.js, as the later  *)
(* createGmailAccount calls them: after the signup page has loaded, after  *)
(* the last step of the signup, and in its catch block.  The steps of the  *)
(* flow between the captures are one step that resolves or rejects.        *)
(***************************************************************************)
MkdirError == Err(<<"EACCES: permission denied, mkdir 'screenshots'">>)
ScreenshotError == Err(<<"Protocol error (Page.captureScreenshot): Target closed.">>)
ContentError == Err(<<"Execution context was destroyed">>)
WriteError == Err(<<"ENOSPC: no space left on device, write">>)

\* The statements of createGmailAccount that call a capture function
CapturePositions ==
  {"initial_shot", "initial_html", "complete_shot", "error_shot", "error_html"}

CaptureFn(pos) ==
  IF pos \in {"initial_html", "error_html"} THEN "captureHtml"
  ELSE "captureScreenshot"

CaptureName(pos) ==
  CASE pos \in {"initial_shot", "initial_html"} -> "gmail_signup_initial"
    [] pos = "complete_shot" -> "gmail_signup_complete"
    [] OTHER -> "gmail_error"

\* The statement that follows the capture at pos
AfterCapture(pos) ==
  CASE pos = "initial_shot" -> "initial_html"
    [] pos = "initial_html" -> "steps"
    [] pos = "complete_shot" -> "return"
    [] pos = "error_shot" -> "error_html"
    [] OTHER -> "rethrow"

\* path.join(dir, `${name}_${timestamp}.png`), `${name}_${timestamp}.html`
CapturePath ==
  <<"screenshots/", CaptureName(cap.pc), "_">> \o ToStr(cap.clock)
    \o <<IF cap.fn = "captureHtml" THEN ".html" ELSE ".png">>

\* createGmailAccount wraps the error of its try block
GmailFlowError(cause) == Err(<<"Failed to create Gmail account: ">> \o cause.message)

InitCapture ==
  /\ version = "none"
  /\ env = Null
  /\ pc = "none"
  /\ ca = NewLocals
  /\ browser = NoBrowser
  /\ file = Null
  /\ fl = IdleFlow
  /\ openPages = 0
  /\ obs = NewObs
  /\ rt = IdleFrame
  /\ hist = NewHist
  /\ ws = IdleWait
  /\ gi = IdleGmail
  /\ si = IdleSafe
  /\ ol = IdleOutlook
  /\ \E d \in BOOLEAN :
       cap = [IdleCapture EXCEPT !.pc = "initial_shot", !.dirExists = d]

\* return filepath
CaptureReturns(path) ==
  [cap EXCEPT !.fn = "none", !.at = "none", !.pc = AfterCapture(cap.pc),
              !.files = @ \cup {path},
              !.returned = Append(@, [path |-> path]),
              !.failed = Append(@, FALSE)]

\* CaptureCatch without the try of the capture function: the error leaves
\* it and is the error of the statement of createGmailAccount
CaptureCatch_Rethrows(error) ==
  [cap EXCEPT !.fn = "none", !.at = "none", !.thrown = error,
              !.failed = Append(@, TRUE),
              !.cause = IF cap.pc \in {"error_shot", "error_html"} THEN @ ELSE error,
              !.pc = IF cap.pc \in {"error_shot", "error_html"} THEN "threw"
                     ELSE "error_shot",
              !.error = IF cap.pc \in {"error_shot", "error_html"} THEN error ELSE @]

\* catch (error) { console.error(...); return null; }
CaptureCatch(error) ==
  [cap EXCEPT !.fn = "none", !.at = "none", !.pc = AfterCapture(cap.pc),
              !.returned = Append(@, Null),
              !.failed = Append(@, TRUE)]

\* await screenshotUtils.captureScreenshot(page, name), captureHtml(page, name)
CaptureCall ==
  /\ cap.pc \in CapturePositions /\ cap.fn = "none"
  /\ cap' = [cap EXCEPT !.fn = CaptureFn(cap.pc), !.at = "dir",
                        !.clock = @ + 1, !.trail = Append(@, cap.pc)]
  /\ UNCHANGED <<progVars, flowVars, retryVars, ws, gi, si, ol>>

\* const dir = ensureScreenshotsDir(): mkdirSync when the directory is missing
CaptureEnsureDir ==
  /\ cap.fn # "none" /\ cap.at = "dir"
  /\ \/ cap' = [cap EXCEPT !.at = "page", !.dirExists = TRUE]
     \/ /\ ~cap.dirExists
        /\ cap' = CaptureCatch(MkdirError)
  /\ UNCHANGED <<progVars, flowVars, retryVars, ws, gi, si, ol>>

\* await page.screenshot({ path: filepath, fullPage: true }); return filepath
CaptureScreenshotPage ==
  /\ cap.fn = "captureScreenshot" /\ cap.at = "page"
  /\ \/ cap' = CaptureReturns(CapturePath)
     \/ cap' = CaptureCatch(ScreenshotError)
  /\ UNCHANGED <<progVars, flowVars, retryVars, ws, gi, si, ol>>

\* const html = await page.content()
CaptureHtmlPage ==
  /\ cap.fn = "captureHtml" /\ cap.at = "page"
  /\ \/ cap' = [cap EXCEPT !.at = "write"]
     \/ cap' = CaptureCatch(ContentError)
  /\ UNCHANGED <<progVars, flowVars, retryVars, ws, gi, si, ol>>

\* fs.writeFileSync(filepath, html); return filepath
CaptureHtmlWrite ==
  /\ cap.fn = "captureHtml" /\ cap.at = "write"
  /\ \/ cap' = CaptureReturns(CapturePath)
     \/ cap' = CaptureCatch(WriteError)
  /\ UNCHANGED <<progVars, flowVars, retryVars, ws, gi, si, ol>>

\* The steps of the signup between the captures resolve, or one rejects
\* and the catch block of createGmailAccount is entered
CaptureFlowSteps ==
  /\ cap.pc = "steps"
  /\ \/ cap' = [cap EXCEPT !.pc = "complete_shot", !.trail = Append(@, "steps")]
     \/ \E c \in Causes :
          cap' = [cap EXCEPT !.pc = "error_shot", !.cause = Err(c),
                            !.trail = Append(@, "steps")]
  /\ UNCHANGED <<progVars, flowVars, retryVars, ws, gi, si, ol>>

\* return profile
CaptureFlowReturns ==
  /\ cap.pc = "return"
  /\ cap' = [cap EXCEPT !.pc = "returned", !.result = [email |-> "gmail"]]
  /\ UNCHANGED <<progVars, flowVars, retryVars, ws, gi, si, ol>>

\* throw new Error(`Failed to create Gmail account: ${error.message}`)
CaptureFlowThrows ==
  /\ cap.pc = "rethrow"
  /\ cap' = [cap EXCEPT !.pc = "threw", !.error = GmailFlowError(cap.cause)]
  /\ UNCHANGED <<progVars, flowVars, retryVars, ws, gi, si, ol>>

NextCapture ==
  \/ CaptureCall
  \/ CaptureEnsureDir
  \/ CaptureScreenshotPage
  \/ CaptureHtmlPage
  \/ CaptureHtmlWrite
  \/ CaptureFlowSteps
  \/ CaptureFlowReturns
  \/ CaptureFlowThrows

SpecCapture == InitCapture /\ [][NextCapture]_vars

(***************************************************************************)
(* Properties of utils.retry (checked under SpecRetry)                     *)
(***************************************************************************)

\* C1: with maxRetries = N >= 1, fn is never in flight twice, is invoked at
\* most N times, and once an invocation has succeeded retry has returned
\* that invocation's value, every earlier invocation had failed, and no
\* further invocation is made.
C1_RetrySequentialUntilSuccess ==
  rt.maxRetries >= 1 =>
    /\ hist.inflight \in {0, 1}
    /\ hist.calls <= rt.maxRetries
    /\ hist.fnValues # <<>> =>
         /\ Len(hist.fnValues) = 1
         /\ hist.inflight = 0
         /\ hist.calls = Len(hist.fnErrors) + 1
         /\ rt.pc = "returned"
         /\ rt.result = hist.fnValues[1]

C1_Witness ==
  /\ rt.fn = "fn" /\ rt.maxRetries >= 3
  /\ rt.pc = "returned"
  /\ hist.calls = rt.maxRetries
  /\ rt.result = hist.fnValues[1]

\* C2: when all N >= 1 invocations failed and onRetry did not throw, no
\* further invocation is made, and retry rejects after exactly N invocations
\* with '<name> failed after N attempts: <message of the N-th failure>'.
C2_RetryExhausted ==
  (rt.maxRetries >= 1 /\ ~hist.onRetryThrew) =>
    /\ Len(hist.fnErrors) = rt.maxRetries =>
         /\ rt.pc \in {"loop", "rejected"}
         /\ hist.calls = rt.maxRetries
    /\ rt.pc = "rejected" =>
         /\ hist.calls = rt.maxRetries
         /\ Len(hist.fnErrors) = rt.maxRetries
         /\ rt.error.message =
              <<rt.name, " failed after ">> \o ToStr(rt.maxRetries)
                \o <<" attempts: ">> \o hist.fnErrors[rt.maxRetries].message

C2_Witness ==
  /\ rt.fn = "fn" /\ rt.maxRetries >= 2 /\ ~hist.onRetryThrew
  /\ rt.pc = "rejected"
  /\ hist.fnErrors[1] # hist.fnErrors[rt.maxRetries]
  /\ rt.error.message[Len(rt.error.message)] = "selector"

\* C3: the k-th wait lasts retryDelay * retryMultiplier^(k-1) ms (2000, 3000,
\* 4500 for the defaults), attempt k+1 starts only after k waits, at most
\* N-1 waits happen (none after the last failed attempt), and for a
\* multiplier >= 1 the waits are non-decreasing.
DefaultWaits == <<2000, 3000, 4500>>

C3_RetryBackoff ==
  rt.maxRetries >= 1 =>
    /\ \A k \in 1..Len(hist.waits) :
         /\ hist.waits[k][1] * Pow(rt.retryMultiplier[2], k - 1)
              = rt.retryDelay * Pow(rt.retryMultiplier[1], k - 1) * hist.waits[k][2]
         /\ (rt.retryDelay = DefaultRetryDelay
               /\ rt.retryMultiplier = DefaultRetryMultiplier /\ k <= 3)
              => RatEq(hist.waits[k], Rat(DefaultWaits[k]))
         /\ (k > 1 /\ rt.retryMultiplier[1] >= rt.retryMultiplier[2])
              => RatLeq(hist.waits[k - 1], hist.waits[k])
    /\ Len(hist.waits) <= rt.maxRetries - 1
    /\ Len(hist.waits) <= Len(hist.fnErrors)
    /\ rt.pc = "infn" => Len(hist.waits) = hist.calls - 1
    /\ (rt.pc = "rejected" /\ ~hist.onRetryThrew)
         => Len(hist.waits) = rt.maxRetries - 1

C3_Witness ==
  /\ rt.fn = "fn"
  /\ rt.retryDelay = DefaultRetryDelay
  /\ rt.retryMultiplier = DefaultRetryMultiplier
  /\ Len(hist.waits) = 3
  /\ hist.waits[3] = <<18000, 4>>
  /\ rt.pc = "rejected"

\* The failed attempts that are not the last one allowed.
RetriedFailures == { k \in 1..Len(hist.fnErrors) : k < rt.maxRetries }

\* C15: the k-th call of onRetry is onRetry(error of attempt k, k) with
\* k < maxRetries; it is made once the k-th attempt has failed, before the
\* k-th wait and before attempt k+1; there is no call after the last
\* attempt allowed has failed, none after a success, and none without an
\* onRetry option.
C15_OnRetryAfterEachFailure ==
  /\ rt.onRetry = "absent" => hist.onRetryCalls = <<>>
  /\ \A k \in 1..Len(hist.onRetryCalls) :
       /\ k < rt.maxRetries
       /\ k <= Len(hist.fnErrors)
       /\ hist.onRetryCalls[k] = [error |-> hist.fnErrors[k], attempt |-> k]
  /\ rt.onRetry # "absent" =>
       /\ Len(hist.onRetryCalls) = Cardinality(RetriedFailures)
       /\ Len(hist.waits) <= Len(hist.onRetryCalls)
       /\ hist.calls <= Len(hist.onRetryCalls) + 1
       /\ rt.pc = "onretry" =>
            /\ hist.inflight = 0
            /\ hist.calls = Len(hist.onRetryCalls)
            /\ Len(hist.waits) = Len(hist.onRetryCalls) - 1
       /\ rt.pc = "returned" => Len(hist.onRetryCalls) = hist.calls - 1
       /\ rt.pc = "rejected" => Len(hist.onRetryCalls) <= Max(rt.maxRetries - 1, 0)

C15_Witness ==
  /\ rt.onRetry = "callback" /\ rt.maxRetries = 3
  /\ rt.pc = "rejected" /\ ~hist.onRetryThrew
  /\ Len(hist.fnErrors) = 3
  /\ Len(hist.onRetryCalls) = 2
  /\ hist.onRetryCalls[1].error # hist.onRetryCalls[2].error

\* C16: whenever retry rejects, for any maxRetries >= 0 and any behaviour
\* of fn and onRetry, the message of the rejection starts with
\* '<name> failed after <maxRetries> attempts: '.
C16_RejectionMessage ==
  rt.pc = "rejected" =>
    IsPrefix(<<rt.name, " failed after ">> \o ToStr(rt.maxRetries)
               \o <<" attempts: ">>,
             rt.error.message)

(***************************************************************************)
(* Properties of createAccounts (checked under Spec)                       *)
(***************************************************************************)
EndsWith(s, token) == s # <<>> /\ s[Len(s)] = token

\* The text is a list of 'Apple ID: ... / Password: ... / empty line' records.
WellFormed(text) ==
  LET ls == Split(text) IN
    /\ ls[Len(ls)] = <<>>
    /\ Len(ls) = 1 \/ Len(ls) % 3 = 0
    /\ \A k \in 1..(Len(ls) \div 3) :
         /\ ls[3 * k - 2] # <<>> /\ Head(ls[3 * k - 2]) = "Apple ID: "
         /\ ls[3 * k - 1] # <<>> /\ Head(ls[3 * k - 1]) = "Password: "
         /\ ls[3 * k] = <<>>

\* The records of a well-formed text, in file order.
Records(text) ==
  LET ls == Split(text) IN
    [k \in 1..(Len(ls) \div 3) |->
       [email |-> Tail(ls[3 * k - 2]), password |-> Tail(ls[3 * k - 1])]]

FileRecords == IF file = Null THEN <<>> ELSE Records(file.text)

IsWrite == obs'.writes = obs.writes + 1

\* The records of the accounts completed in the current pass.
PassRecords == SubSeq(obs.records, obs.earlier + 1, Len(obs.records))

IsSuffix(s, t) ==
  Len(s) <= Len(t) /\ \A k \in 1..Len(s) : s[k] = t[Len(t) - Len(s) + k]

C5_FileHoldsCompletedAccounts ==
  pc = "done" =>
    /\ file # Null
    /\ WellFormed(file.text)
    /\ FileRecords = obs.records
    /\ Len(obs.records) = obs.earlier + Len(obs.completed)

\* C6: in create-accounts.js ACCOUNTS_COUNT is 1 when the environment
\* variable is unset; with ACCOUNTS_COUNT = n the accounts 0, 1, ... are
\* started in order, at most n of them, account i+1 only after account i
\* was completed, and on normal completion exactly n accounts are completed.
C6_AccountsInOrder ==
  version = "main" =>
    /\ env = Null => ACCOUNTS_COUNT = Num(1)
    /\ (~ACCOUNTS_COUNT.nan /\ ACCOUNTS_COUNT.val >= 0) =>
         /\ Len(obs.started) <= ACCOUNTS_COUNT.val
         /\ \A k \in 1..Len(obs.started) : obs.started[k] = k - 1
         /\ IsPrefix(obs.completed, obs.started)
         /\ Len(obs.completed) >= Len(obs.started) - 1
         /\ pc = "done" =>
              /\ Len(obs.completed) = ACCOUNTS_COUNT.val
              /\ Len(ca.accountsData) = ACCOUNTS_COUNT.val

C6_Witness ==
  /\ version = "main" /\ pc = "done"
  /\ env = [v |-> <<"2">>]
  /\ obs.completed = <<0, 1>>

MaxRetriesOf(v) == IF v = "main" THEN 2 ELSE 3

\* C7: for each account createOutlookAccount is invoked only after
\* createGmailAccount has been invoked and has failed on all of its retry
\* attempts, and never once createGmailAccount has succeeded.
C7_FallbackOrder ==
  LET a == obs.account IN
    /\ a.calls.createOutlookAccount > 0 =>
         /\ a.calls.createGmailAccount = MaxRetriesOf(version)
         /\ a.failures.createGmailAccount = MaxRetriesOf(version)
    /\ a.emailFlow = "createGmailAccount" => a.calls.createOutlookAccount = 0

\* C8: createAppleID is invoked only after an email flow of the same account
\* has returned, with the profile that flow returned, and with isGmail true
\* exactly when that flow was createGmailAccount; the profile's email then
\* ends in '@gmail.com' or '@outlook.com' accordingly, and the account
\* returned and saved carries that profile's email and password.
SavedAccounts == IF version = "main" THEN ca.accountsData ELSE ca.successfulAccounts

C8_FinalFlowArguments ==
  LET a == obs.account IN
    /\ a.calls.createAppleID > 0 =>
         /\ a.appleArgs # Null
         /\ a.emailFlow \in {"createGmailAccount", "createOutlookAccount"}
         /\ a.appleArgs.profile = a.emailResult
         /\ a.appleArgs.isGmail = (a.emailFlow = "createGmailAccount")
         /\ EndsWith(a.appleArgs.profile.email,
                     IF a.appleArgs.isGmail THEN "@gmail.com" ELSE "@outlook.com")
    /\ (rt.fn = "createAppleID" /\ rt.pc = "returned") =>
         /\ rt.result.appleEmail = a.appleArgs.profile.email
         /\ rt.result.applePassword = a.appleArgs.profile.password
    /\ \A k \in 1..Len(SavedAccounts) :
         /\ k <= Len(PassRecords)
         /\ SavedAccounts[k].appleEmail = PassRecords[k].email
         /\ SavedAccounts[k].applePassword = PassRecords[k].password

C8_Witness ==
  /\ version = "main"
  /\ rt.fn = "createAppleID" /\ rt.pc = "returned"
  /\ ~obs.account.appleArgs.isGmail
  /\ rt.result.appleEmail = <<"user", "0", "b", "@outlook.com">>

\* C9: every invocation of a flow is made by utils.retry, every invocation
\* starts at the first step on a page opened for it, and per account each
\* flow is invoked at most maxRetries times (2 in create-accounts.js, 3 in
\* the later version).
C9_FlowsInsideRetry ==
  /\ [](/\ fl.pc # "idle" =>
             /\ rt.pc = "infn" /\ rt.fn = fl.kind
             /\ obs.account.calls[fl.kind] = hist.calls
             /\ fl.page = hist.newPages
             /\ openPages >= 1
        /\ \A kind \in FlowKinds :
             obs.account.calls[kind] <= MaxRetriesOf(version)
        /\ (rt.fn \in FlowKinds /\ rt.pc # "idle") =>
             /\ rt.maxRetries = MaxRetriesOf(version)
             /\ hist.calls - obs.account.calls[rt.fn] \in {0, 1}
             /\ hist.newPages <= hist.calls)
  /\ [][(fl.pc = "idle" /\ fl'.pc # "idle") =>
          /\ fl'.step = 1
          /\ fl'.page = hist.newPages + 1
          /\ openPages' = openPages + 1]_vars

C9_Witness ==
  /\ version = "main"
  /\ fl.pc = "step" /\ fl.step = 1 /\ fl.page = 2
  /\ obs.account.calls = [createGmailAccount |-> 2, createOutlookAccount |-> 2,
                          createAppleID |-> 2]

\* C10: in createGmailAccount of create-accounts.js a failure of the
\* recovery-info step (17) or of the agreement step (18) never makes the flow
\* fail and the next step is executed; a failure of any other step ends the
\* flow there, and the flow throws 'Failed to create Gmail account: <cause>'.
GmailOptional == {17, 18}

InMainGmail == version = "main" /\ fl.kind = "createGmailAccount"

C10_GmailOptionalSteps ==
  /\ [](InMainGmail =>
        /\ \A s \in fl.skipped : s \in GmailOptional /\ fl.step > s
        /\ (fl.pc = "finally" /\ fl.outcome.type = "throw") =>
             /\ fl.step \notin GmailOptional
             /\ \E c \in Causes :
                  fl.outcome.error.message
                    = <<"Failed to create Gmail account: ">> \o c)
  /\ [][(InMainGmail /\ fl.pc = "step" /\ fl' # fl) =>
          IF fl.step \in GmailOptional
          THEN fl'.pc = "step" /\ fl'.step = fl.step + 1
          ELSE \/ fl'.pc = "step" /\ fl'.step > fl.step /\ fl'.skipped = fl.skipped
               \/ fl'.pc = "finally" /\ fl'.outcome.type = "return"
                    /\ fl.step = 19
               \/ fl'.pc = "finally" /\ fl'.outcome.type = "throw"
                    /\ fl'.step = fl.step]_vars
  /\ [][(InMainGmail /\ fl.pc = "finally" /\ fl.outcome.type = "throw") =>
          /\ rt'.lastError = fl.outcome.error
          /\ hist'.fnErrors = Append(hist.fnErrors, fl.outcome.error)]_vars

C10_Witness ==
  /\ InMainGmail
  /\ fl.pc = "finally" /\ fl.outcome.type = "return"
  /\ fl.skipped = GmailOptional


(***************************************************************************)
(* Properties of waitForAnySelector (checked under SpecWait)               *)
(***************************************************************************)
\* Positions in the list of the selectors the page held from the start.
StartPositions ==
  { k \in 1..Len(ws.selectors) : ws.selectors[k] \in ws.presentAtStart }

\* No element for a selector of the list turned up during the call.
PageUnchanged ==
  \A k \in 1..Len(ws.selectors) :
    ws.presentSince[ws.selectors[k]] # Never => k \in StartPositions

\* C11: waitForAnySelector returns only a selector of the list for which the
\* page held an element; in every round the selectors are probed in list
\* order, so the selector returned comes no later in the list than the
\* earliest one present from the start, and is that one when the page did
\* not change.
C11_ReturnsEarliestPresent ==
  /\ ws.probed = SubSeq(ws.selectors, 1, Len(ws.probed))
  /\ ws.pc = "probe" => Len(ws.probed) = ws.idx
  /\ ws.pc = "returned" =>
       LET s == ws.result.selector IN
         /\ ws.idx \in 1..Len(ws.selectors)
         /\ s = ws.selectors[ws.idx]
         /\ ws.presentSince[s] # Never /\ ws.presentSince[s] <= ws.now
         /\ Len(ws.probed) = ws.idx
         /\ StartPositions # {} =>
              /\ ws.attempt = 1
              /\ \A k \in StartPositions : ws.idx <= k
              /\ PageUnchanged => ws.idx \in StartPositions

\* selectors.join(', ') written out position by position
JoinedSelectors ==
  [k \in 1..(IF ws.selectors = <<>> THEN 0 ELSE 2 * Len(ws.selectors) - 1) |->
     IF k % 2 = 1 THEN ws.selectors[(k + 1) \div 2] ELSE ", "]

\* C12: waitForAnySelector returns a selector only if it became present
\* before the timeout had elapsed; otherwise it throws 'None of the selectors
\* found within <timeout>ms: <list>' and returns nothing; and every call ends.
C12_ThrowsAfterTimeout ==
  /\ [](/\ ws.pc = "returned" =>
             /\ ws.error = Null
             /\ ws.presentSince[ws.result.selector] < ws.timeout
        /\ ws.pc = "threw" =>
             /\ ws.result = Null
             /\ ws.now >= ws.timeout
             /\ ws.error.message =
                  <<"None of the selectors found within ">> \o ToStr(ws.timeout)
                    \o <<"ms: ">> \o JoinedSelectors)
  /\ <>(ws.pc \in {"returned", "threw"})

\* C34: the fallback waitForAnySelector waits for each selector once, in
\* list order, each time with the whole timeout (options.timeout, 15000
\* when absent); it returns the selector of the first wait that resolved,
\* and after one pass without one throws 'None of the selectors found:
\* <list>'; and when the full waitForAnySelector, called with the same
\* arguments on the same page, returns a selector present from the start,
\* the fallback has returned a selector too.
C34_FallbackOnePass ==
  LET fb == ws.fallback IN
  /\ fb.pc # "idle" =>
        /\ Len(fb.probes) <= Len(ws.selectors)
        /\ \A k \in 1..Len(fb.probes) :
              /\ fb.probes[k].selector = ws.selectors[k]
              /\ fb.probes[k].timeout =
                    IF fb.option = Null \/ fb.option.v = 0 THEN 15000
                    ELSE fb.option.v
  /\ fb.pc = "returned" =>
        /\ fb.probes # <<>>
        /\ fb.result.selector = fb.probes[Len(fb.probes)].selector
        /\ fb.result.selector \in InPage
        /\ \A k \in 1..(Len(fb.probes) - 1) :
              ws.selectors[k] \notin ws.presentAtStart \cup fb.hidden
        /\ fb.error = Null
  /\ fb.pc = "threw" =>
        /\ Len(fb.probes) = Len(ws.selectors)
        /\ fb.result = Null
        /\ fb.error.message = <<"None of the selectors found: ">> \o JoinedSelectors
  /\ (ws.pc = "returned" /\ ws.result.selector \in ws.presentAtStart) =>
        fb.pc = "returned"

\* The fallback returned the second selector, whose element is not visible,
\* after the wait for the first one was rejected; the full function
\* returned a later selector, present from the start.
C34_Witness ==
  /\ ws.pc = "returned" /\ ws.result.selector \in ws.presentAtStart
  /\ ws.fallback.pc = "returned"
  /\ Len(ws.fallback.probes) = 2
  /\ ws.fallback.result.selector \in ws.fallback.hidden
  /\ ws.fallback.result.selector # ws.result.selector

(***************************************************************************)
(* Properties of createGmailAccounts (checked under SpecGmail)             *)
(***************************************************************************)
FreshEmails == { <<"new1", "@gmail.com">>, <<"new2", "@gmail.com">> }

\* C13: createGmailAccounts resolves only with accounts read from an output
\* file written during the invocation: the file of an earlier invocation is
\* gone before anything is spawned, and the promise resolves only if the
\* script process closed with exit code 0, the output file exists and at
\* least one account was parsed from it; in every other case it rejects.
C13_ResolvesFreshAccounts ==
  /\ gi.pc \in {"pip", "events", "done"} =>
       gi.outputFile = Null \/ gi.writes >= 1
  /\ gi.promise = "resolved" =>
       /\ gi.closed /\ gi.exitCode = ExitCode(0)
       /\ gi.outputFile # Null /\ gi.writes >= 1
       /\ Len(gi.value.accounts) >= 1
       /\ gi.value.accounts = ParseCreatedAccounts(gi.outputFile.text)
       /\ \A k \in 1..Len(gi.value.accounts) :
            gi.value.accounts[k].email \in FreshEmails
  /\ gi.pc = "done" => gi.promise \in {"resolved", "rejected"}
  /\ (gi.closed /\ (gi.exitCode # ExitCode(0) \/ gi.outputFile = Null
                    \/ ParseCreatedAccounts(gi.outputFile.text) = <<>>)) =>
       gi.promise = "rejected"

C13_Witness ==
  /\ gi.promise = "resolved"
  /\ gi.version = "current"
  /\ gi.staleAtStart
  /\ Len(gi.value.accounts) = 2

\* The retry around the second email flow, or around the final flow, has
\* rejected in createAccounts of create-accounts.js.
MainAccountFailed ==
  version = "main" /\ pc \in {"outlook", "apple"} /\ rt.pc = "rejected"

\* C17: in create-accounts.js, when both email flows or the final flow are
\* exhausted for an account, the next step records the error and goes to
\* the finally block, from which createAccounts throws; with an error
\* recorded no flow or retry is active, no account after the failed one has
\* been started, and accounts.txt is as it was before the run.
C17_MainFailFast ==
  /\ [](version = "main" =>
          /\ ca.error # Null =>
               /\ pc \in {"finally", "threw"}
               /\ fl.pc = "idle" /\ rt.pc = "idle"
               /\ Len(obs.started) <= ca.i + 1
               /\ \A k \in 1..Len(obs.started) : obs.started[k] <= ca.i
               /\ obs.writes = 0
               /\ file = obs.fileAtStart
          /\ pc = "threw" => ca.error # Null
          /\ pc = "done" => ca.error = Null)
  /\ [][ /\ MainAccountFailed =>
              (pc' = "finally" /\ ca'.error # Null /\ ca'.i = ca.i)
         /\ (version = "main" /\ pc = "finally" /\ ca.error # Null) =>
              pc' = "threw"
       ]_vars

C17_Witness ==
  /\ version = "main" /\ pc = "threw"
  /\ Len(obs.completed) = 1 /\ Len(ca.accountsData) = 1
  /\ Len(obs.started) = 2
  /\ obs.account.failures.createAppleID = MainMaxRetries
  /\ obs.fileAtStart # Null /\ file = obs.fileAtStart

\* C18: in create-accounts.js a launched browser is closed exactly once by
\* the time createAccounts returns or throws, never more than once, only
\* when no flow and no retry is active, and after the close no flow is
\* entered and no page is opened.
C18_MainClosesBrowserOnce ==
  /\ [](version = "main" =>
          /\ obs.mainCloseCalls <= 1
          /\ browser.ref = "null" => obs.mainCloseCalls = 0
          /\ (pc \in {"done", "threw"} /\ browser.ref # "null") =>
               /\ obs.mainCloseCalls = 1
               /\ browser = [ref |-> "closed", openInstances |-> 0]
          /\ obs.mainCloseCalls = 1 =>
               /\ pc \in {"done", "threw"}
               /\ fl.pc = "idle" /\ rt.pc = "idle" /\ openPages = 0
          /\ fl.pc # "idle" =>
               browser = [ref |-> "open", openInstances |-> 1])
  /\ [][(version = "main" /\ obs.mainCloseCalls >= 1) =>
          /\ fl' = fl /\ openPages' = openPages
          /\ obs'.account = obs.account /\ obs'.started = obs.started
       ]_vars

C18_Witness ==
  /\ version = "main" /\ pc = "threw"
  /\ obs.mainCloseCalls = 1 /\ browser.ref = "closed"
  /\ obs.account.calls.createGmailAccount = MainMaxRetries
  /\ obs.account.calls.createOutlookAccount = MainMaxRetries
  /\ Len(obs.completed) = 1

\* The pages the active flow holds: its own, and the page of
\* getEmailVerificationCode while that is running inside it.
PagesOfFlow ==
  (IF fl.pc \in {"step", "nested", "finally"} THEN 1 ELSE 0)
    + (IF fl.pc = "nested" THEN 1 ELSE 0)

\* C19: the open flow pages are exactly those of the flow that is running
\* (one, or two while getEmailVerificationCode runs inside createAppleID);
\* a flow that has returned or thrown holds none, every call of a flow in a
\* retry opened at most one page, and none is open when createAccounts has
\* finished.
C19_PageLifecycle ==
  /\ openPages = PagesOfFlow
  /\ openPages <= 2
  /\ openPages = 2 => (fl.kind = "createAppleID" /\ fl.pc = "nested")
  /\ rt.pc \in {"returned", "rejected", "onretry", "sleep", "loop"} =>
       (fl.pc = "idle" /\ openPages = 0)
  /\ rt.fn \in FlowKinds =>
       /\ hist.newPages <= hist.calls
       /\ (version = "main" /\ fl.pc # "idle") => hist.newPages = hist.calls
       /\ fl.pc # "idle" => fl.page = hist.newPages
  /\ pc \in {"done", "threw"} => openPages = 0

C19_Witness ==
  /\ version = "main"
  /\ openPages = 2 /\ fl.pc = "nested"
  /\ hist.calls = 2 /\ hist.newPages = 2

\* The retry around the second email flow, or around the final flow, has
\* rejected in the later createAccounts.
LaterAccountFailed ==
  version = "later" /\ pc \in {"outlook", "apple"} /\ rt.pc = "rejected"

\* The number of iterations of for (let i = 0; i < ACCOUNTS_COUNT; i++).
Iterations ==
  IF ACCOUNTS_COUNT.nan THEN 0 ELSE Max(ACCOUNTS_COUNT.val, 0)

\* C20: in the later createAccounts a failed account makes the loop go on
\* with the next index, keeping the accounts collected and accounts.txt;
\* within a pass the indices started are 0, 1, 2, ... in order, each once,
\* all of 0..ACCOUNTS_COUNT-1 by the end of the pass, and the accounts kept
\* and saved are exactly those whose final flow succeeded, in order.
C20_LaterContinuesAfterFailure ==
  /\ [](version = "later" =>
          /\ \A k \in 1..Len(obs.started) : obs.started[k] = k - 1
          /\ Len(obs.started) <= Iterations
          /\ pc \in {"gmail", "outlook", "apple"} => Len(obs.started) = ca.i + 1
          /\ pc = "for" => Len(obs.started) = ca.i
          /\ Len(ca.successfulAccounts) = Len(obs.completed)
          /\ \A k \in 1..Len(obs.completed) :
               /\ \E j \in 1..Len(obs.started) : obs.started[j] = obs.completed[k]
               /\ k > 1 => obs.completed[k - 1] < obs.completed[k]
          /\ pc \in {"for", "save"} =>
               KeptRecords(ca.successfulAccounts) = PassRecords
          /\ pc = "save" => Len(obs.started) = Iterations
          /\ pc = "done" =>
               /\ Len(obs.started) = Iterations
               /\ KeptRecords(ca.accountsData) = obs.records)
  /\ [][LaterAccountFailed =>
          /\ pc' = "for" /\ ca'.i = ca.i + 1
          /\ ca'.successfulAccounts = ca.successfulAccounts
          /\ ca'.error = Null
          /\ file' = file
       ]_vars

C20_Witness ==
  /\ version = "later" /\ pc = "done"
  /\ obs.started = <<0, 1>>
  /\ obs.completed = <<1>>
  /\ Len(ca.accountsData) = 1
  /\ FileRecords = KeptRecords(ca.accountsData)

(***************************************************************************)
(* Properties of the global attempts of the later createAccounts           *)
(***************************************************************************)
\* C21: in the later createAccounts every record that a write of the run has
\* put into accounts.txt is in accounts.txt in every later state of the run.
C21_ProgressNeverLost ==
  version = "later" =>
    \A r \in obs.saved : \E k \in 1..Len(FileRecords) : FileRecords[k] = r

C23_LaterResult ==
  version = "later" =>
    /\ pc = "done" => obs.records # <<>>
    /\ pc = "threw" =>
         /\ obs.records = <<>>
         /\ ca.error = Err(<<"Failed to create any accounts after all attempts">>)
    /\ Len(ca.accountsData) <= Iterations
    /\ obs.saved # {} => Len(FileRecords) <= Iterations
    /\ \A j, k \in 1..Len(ca.accountsData) :
         j # k => ca.accountsData[j] # ca.accountsData[k]

\* C24: in the later createAccounts a flow is only ever invoked while the
\* variable browser refers to an open instance, so no attempt of a retry
\* fails for a closed browser.
C24_FlowsGetOpenBrowser ==
  /\ [](version = "later" =>
          /\ fl.pc # "idle" => browser.ref = "open"
          /\ \A k \in 1..Len(hist.fnErrors) : hist.fnErrors[k] # TargetClosed)
  /\ [][(version = "later" /\ obs'.account.calls # obs.account.calls
           /\ obs'.started = obs.started) => browser.ref = "open"]_vars

\* C25: in the later createAccounts at most one launched browser instance
\* has not had close() called on it, and that one is the instance the
\* variable browser refers to; there is none between two global attempts
\* and none when createAccounts has returned or thrown.
C25_LaterClosesEveryBrowser ==
  version = "later" =>
    /\ browser.openInstances = IF browser.ref = "open" THEN 1 ELSE 0
    /\ pc \in {"while", "after", "done", "threw"} => browser.ref # "open"
    /\ (pc \in {"while", "after", "done", "threw"} /\ obs.started # <<>>) =>
         browser.ref = "closed"

C25_Witness ==
  /\ version = "later" /\ pc = "done"
  /\ obs.attempts = 2 /\ obs.passErrors = 1
  /\ browser = [ref |-> "closed", openInstances |-> 0]

\* C28: every timeout waitForAnySelector passes to page.waitForSelector
\* is positive, at most 5000 ms and at most what is left of the overall
\* timeout, and the call ends at most one probe after the overall timeout.
C28_ProbeTimeoutBounds ==
  /\ ws.pc = "probe" =>
        /\ ws.probeTimeout > 0
        /\ ws.probeTimeout <= ProbeCap
        /\ ws.probeTimeout <= ws.timeout - ws.now
  /\ ws.pc \in {"returned", "threw"} => ws.now <= ws.timeout + ProbeCap

(***************************************************************************)
(* Properties of safeInteraction                                           *)
(***************************************************************************)
\* C26: safeInteraction with a selector calls the action only after the
\* wait for the selector has resolved; when the wait rejects, the action
\* is never called and safeInteraction throws the error of the wait; when
\* safeInteraction returns it returns true and the action has fulfilled,
\* and a rejection of the action is thrown as it is.
C26_SelectorBeforeAction ==
  /\ si.selector # Null =>
        /\ si.action # "none" =>
              /\ si.waited = "found"
              /\ si.events[1] = "waitForSelector" /\ si.events[2] = "action"
        /\ si.waited = "failed" =>
              /\ si.action = "none"
              /\ si.pc = "threw"
              /\ si.error = SelectorTimeout(si.selector.v)
  /\ si.pc = "returned" => si.result = TRUE /\ si.action = "fulfilled"
  /\ (si.pc \in {"returned", "threw"} /\ si.action = "rejected"
        /\ si.first = "action") =>
        si.pc = "threw" /\ si.error = si.actionError
  /\ (si.pc = "threw" /\ si.waited # "failed" /\ ~si.waitForNavigation) =>
        si.action = "rejected" /\ si.error = si.actionError

C26_Witness ==
  /\ si.selector # Null /\ si.waited = "found"
  /\ si.pc = "threw" /\ si.action = "rejected"
  /\ si.error = Err(<<"No node found for ", "selector">>)

\* C27: safeInteraction with waitForNavigation returns true only when the
\* action promise and the promise of page.waitForNavigation have both
\* fulfilled, and throws the first rejection of the two; action() is
\* called right before page.waitForNavigation(), with no step between
\* them, so every navigation delivered after the action started fulfils
\* the navigation promise unless its timer has already fired.
C27_ActionAndNavigation ==
  si.waitForNavigation =>
    /\ si.pc = "returned" =>
          /\ si.action = "fulfilled" /\ si.navigation = "fulfilled"
          /\ si.first = "none"
    /\ (si.pc = "threw" /\ si.waited # "failed") =>
          /\ si.first \in {"action", "navigation"}
          /\ si.first = "action" =>
                si.action = "rejected" /\ si.error = si.actionError
          /\ si.first = "navigation" =>
                si.navigation = "rejected" /\ si.error = NavigationTimeout
    /\ \A k \in 1..Len(si.events) :
          si.events[k] = "waitForNavigation" =>
            k > 1 /\ si.events[k - 1] = "action"
    /\ si.pc = "await" => si.navigation # "none"
    /\ si.navigated => si.navigation # "pending"
    /\ (si.navigated /\ si.navigation = "rejected") =>
          si.navigationError = NavigationTimeout

C27_Witness ==
  /\ si.waitForNavigation /\ si.pc = "returned" /\ si.navigated
  /\ si.events[Len(si.events)] = "waitForNavigation"

(***************************************************************************)
(* Properties of the dependency install of createGmailAccounts             *)
(***************************************************************************)
\* C30: createGmailAccounts of gmail-interface.js writes the temporary
\* script and spawns the script process only after the pip3 process has
\* closed with exit code 0; when that process closes with another code or
\* cannot be started, the promise rejects with a message that starts with
\* 'Failed to install Python dependencies: ', no temporary script is
\* written and no script process is spawned.
C30_InstallBeforeScript ==
  gi.version = "current" =>
    /\ (gi.spawned > 0 \/ gi.tempScript \/ gi.child # "none") =>
          gi.pip = "installed"
    /\ gi.spawned <= 1
    /\ gi.pip = "running" => gi.pc = "pip" /\ gi.promise = "pending"
    /\ gi.pip \in {"failed", "not started"} =>
          /\ gi.pc = "done"
          /\ gi.promise = "rejected"
          /\ IsPrefix(<<"Failed to install Python dependencies: ">>,
                      gi.value.message)
          /\ ~gi.tempScript /\ gi.spawned = 0 /\ gi.child = "none"

C30_Witness ==
  /\ gi.version = "current" /\ gi.pip = "failed"
  /\ gi.promise = "rejected"
  /\ gi.value = Err(<<"Failed to install Python dependencies: ",
                      "Failed to install Python dependencies with code ", "1">>)

(***************************************************************************)
(* Properties of the events of the script process                          *)
(***************************************************************************)
\* C31: the promise of createGmailAccounts of gmail-interface.js settles
\* once and keeps its state and value whatever events follow; after a chunk
\* on stderr or a chunk on stdout with an error marker the process has been
\* killed and the promise is rejected, and stays rejected when the process
\* then closes with code 0 and an output file exists; and under every order
\* of the events the promise settles in the end.
C31_SettlesOnce ==
  /\ [](gi.version = "current" =>
          /\ gi.promise = "pending" <=> gi.value = Null
          /\ gi.promise # "pending" => gi.settles >= 1
          /\ (gi.markers > 0 \/ gi.stderrData # <<>>) =>
                gi.killed /\ gi.promise = "rejected")
  /\ [][(gi.version = "current" /\ gi.promise # "pending") =>
          gi'.promise = gi.promise /\ gi'.value = gi.value]_vars
  /\ (gi.version = "current" => <>(gi.promise # "pending"))

C31_Witness ==
  /\ gi.version = "current" /\ gi.killed /\ gi.markers > 0
  /\ gi.closed /\ gi.exitCode = ExitCode(0)
  /\ gi.outputFile # Null
  /\ ParseCreatedAccounts(gi.outputFile.text) # <<>>
  /\ gi.promise = "rejected" /\ gi.settles = 2

\* C32: once the script process was spawned, the temporary script is gone
\* at the moment the promise of createGmailAccounts settles and from then
\* on, whichever handler settled it.
C32_TempScriptRemoved ==
  (gi.version = "current" /\ gi.spawned > 0 /\ gi.promise # "pending") =>
    ~gi.tempScript

(***************************************************************************)
(* Properties of the later createOutlookAccount                            *)
(***************************************************************************)
\* The position of a stage in the try block
StageNo(name) == CHOOSE k \in 1..Len(OutlookStages) : OutlookStages[k] = name

\* C33: in the later createOutlookAccount a failure in the phone
\* verification makes the flow throw 'Failed to create Outlook account:
\* Phone verification failed: ...'; success is logged and the profile is
\* returned only when the phone verification completed; and the flow never
\* fails in a stage whose catch block has no throw statement (password,
\* name, birth date, captcha, final navigation).
C33_OnlyCriticalStepFails ==
  /\ (ol.failedAt = StageNo("phone verification") /\ ol.pc \in {"finally", "threw"}) =>
        ol.error = Err(<<"Failed to create Outlook account: ",
                         "Phone verification failed: ">> \o ol.inner.message)
  /\ ol.success =>
        /\ Len(ol.how) >= StageNo("phone verification")
        /\ ol.how[StageNo("phone verification")] = "done"
        /\ ol.error = Null
  /\ ol.pc = "returned" => ol.success /\ ol.result # Null
  /\ ol.failedAt \notin
        { StageNo(n) : n \in {"password", "name", "birth date", "captcha",
                              "final navigation"} }

(***************************************************************************)
(* Properties of the diagnostic captures (checked under SpecCapture)       *)
(***************************************************************************)
\* The statements of createGmailAccount in the order it runs them, which
\* depends on the outcome of its own steps only
CaptureOrder ==
  IF cap.cause = Null
  THEN <<"initial_shot", "initial_html", "steps", "complete_shot">>
  ELSE <<"initial_shot", "initial_html", "steps", "error_shot", "error_html">>

\* C29: captureScreenshot and captureHtml never throw; they return the
\* path of the file they wrote, or null when anything failed; so
\* createGmailAccount runs the same statements, returns or throws, and
\* throws the same error, whether its captures fail or not.
C29_CaptureNeverThrows ==
  /\ cap.thrown = Null
  /\ Len(cap.returned) = Len(cap.failed)
  /\ \A k \in 1..Len(cap.returned) :
        IF cap.failed[k] THEN cap.returned[k] = Null
        ELSE cap.returned[k] # Null /\ cap.returned[k].path \in cap.files
  /\ IsPrefix(cap.trail, CaptureOrder)
  /\ cap.pc = "returned" => cap.cause = Null /\ cap.error = Null
  /\ cap.pc = "threw" =>
        /\ cap.cause \in { Err(c) : c \in Causes }
        /\ cap.error = GmailFlowError(cap.cause)
        /\ cap.trail = CaptureOrder

C29_Witness ==
  /\ cap.pc = "threw"
  /\ cap.failed = <<FALSE, FALSE, TRUE, TRUE>>
  /\ cap.returned[3] = Null /\ cap.returned[4] = Null
  /\ cap.error = GmailFlowError(Err(<<"No node found for ", "selector">>))

(***************************************************************************)
(* createAccounts and the Python creator script                            *)
(***************************************************************************)
\* C14: a run of create-accounts.js starts a Puppeteer flow only after
\* createGmailAccounts has resolved with the accounts the Python script
\* saved, and a run that completes has written accounts.txt.
C14_GmailScriptFirst ==
  version = "main" =>
    /\ (fl.pc # "idle" \/ obs.started # <<>>) =>
         /\ gi.pc = "done"
         /\ gi.promise = "resolved"
         /\ Len(gi.value.accounts) >= 1
    /\ pc = "done" => obs.writes = 1

=============================================================================
